---- MODULE Spec2Model ----
(***************************************************************************)
(* Verification model of the slow-query index advisory repository.         *)
(*                                                                         *)
(* Part A  connection helpers (database_helper.py, db_connection_manager)  *)
(* Part B  batch loop of analyze_slow_queries.py                           *)
(* Part C  advisory entry points and the intelligent suggestion generator  *)
(* Part D  field extractors of sql_analyzer.py and the advisory, run twice *)
(***************************************************************************)
EXTENDS Integers, Sequences, FiniteSets, TLC

(***************************************************************************)
(* Text: a Python str is a sequence of one-character strings.              *)
(***************************************************************************)
LowerAlphabet ==
  << "a","b","c","d","e","f","g","h","i","j","k","l","m",
     "n","o","p","q","r","s","t","u","v","w","x","y","z" >>

UpperAlphabet ==
  << "A","B","C","D","E","F","G","H","I","J","K","L","M",
     "N","O","P","Q","R","S","T","U","V","W","X","Y","Z" >>

UpperChar(c) ==
  IF \E i \in 1..26 : LowerAlphabet[i] = c
    THEN UpperAlphabet[CHOOSE i \in 1..26 : LowerAlphabet[i] = c]
    ELSE c

\* str.upper()
Upper(s) == [i \in 1..Len(s) |-> UpperChar(s[i])]

\* Python `sub in s`
Contains(s, sub) ==
  \E i \in 0..(Len(s) - Len(sub)) : \A j \in 1..Len(sub) : s[i + j] = sub[j]

\* str.startswith
StartsWith(s, p) ==
  /\ Len(p) <= Len(s)
  /\ \A j \in 1..Len(p) : s[j] = p[j]

\* str.count for a pattern that cannot overlap itself
CountOf(s, sub) ==
  Cardinality({i \in 0..(Len(s) - Len(sub)) : \A j \in 1..Len(sub) : s[i + j] = sub[j]})

\* The characters of the names used as tokens; a token that Spell does not
\* list is a single character.
Spell ==
  [ id       |-> << "i", "d" >>,
    user_id  |-> << "u", "s", "e", "r", "_", "i", "d" >>,
    created  |-> << "c", "r", "e", "a", "t", "e", "d" >>,
    end_time |-> << "e", "n", "d", "_", "t", "i", "m", "e" >>,
    status   |-> << "s", "t", "a", "t", "u", "s" >>,
    type     |-> << "t", "y", "p", "e" >>,
    name     |-> << "n", "a", "m", "e" >>,
    pk       |-> << "p", "k" >>,
    primary_key |-> << "p", "r", "i", "m", "a", "r", "y", "_", "k", "e", "y" >>,
    updated  |-> << "u", "p", "d", "a", "t", "e", "d" >>,
    modified |-> << "m", "o", "d", "i", "f", "i", "e", "d" >>,
    birth_date |-> << "b", "i", "r", "t", "h", "_", "d", "a", "t", "e" >>,
    state    |-> << "s", "t", "a", "t", "e" >>,
    flag     |-> << "f", "l", "a", "g" >>,
    order_status |-> << "o", "r", "d", "e", "r", "_", "s", "t", "a", "t", "u", "s" >>,
    None     |-> << "N", "o", "n", "e" >>,
    username |-> << "u", "s", "e", "r", "n", "a", "m", "e" >>,
    ID       |-> << "I", "D" >>,
    c1       |-> << "c", "1" >>,
    c2       |-> << "c", "2" >>,
    c3       |-> << "c", "3" >>,
    c4       |-> << "c", "4" >>,
    c5       |-> << "c", "5" >>,
    c6       |-> << "c", "6" >>,
    date     |-> << "d", "a", "t", "e" >>,
    time     |-> << "t", "i", "m", "e" >>,
    timestamp |-> << "t", "i", "m", "e", "s", "t", "a", "m", "p" >>,
    category |-> << "c", "a", "t", "e", "g", "o", "r", "y" >>,
    user     |-> << "u", "s", "e", "r" >>,
    title    |-> << "t", "i", "t", "l", "e" >>,
    code     |-> << "c", "o", "d", "e" >>,
    idx      |-> << "i", "d", "x" >>,
    composite |-> << "c", "o", "m", "p", "o", "s", "i", "t", "e" >>,
    join     |-> << "j", "o", "i", "n" >>,
    on       |-> << "o", "n" >>,
    or       |-> << "o", "r" >>,
    not      |-> << "n", "o", "t" >>,
    group    |-> << "g", "r", "o", "u", "p" >>,
    limit    |-> << "l", "i", "m", "i", "t" >>,
    offset   |-> << "o", "f", "f", "s", "e", "t" >>,
    like     |-> << "l", "i", "k", "e" >>,
    in       |-> << "i", "n" >>,
    is       |-> << "i", "s" >>,
    between  |-> << "b", "e", "t", "w", "e", "e", "n" >>,
    desc     |-> << "d", "e", "s", "c" >>,
    asc      |-> << "a", "s", "c" >>,
    lower    |-> << "l", "o", "w", "e", "r" >>,
    upper    |-> << "u", "p", "p", "e", "r" >>,
    substring |-> << "s", "u", "b", "s", "t", "r", "i", "n", "g" >>,
    concat   |-> << "c", "o", "n", "c", "a", "t" >>,
    length   |-> << "l", "e", "n", "g", "t", "h" >>,
    trim     |-> << "t", "r", "i", "m" >>,
    ltrim    |-> << "l", "t", "r", "i", "m" >>,
    rtrim    |-> << "r", "t", "r", "i", "m" >>,
    abs      |-> << "a", "b", "s" >>,
    ceil     |-> << "c", "e", "i", "l" >>,
    floor    |-> << "f", "l", "o", "o", "r" >>,
    round    |-> << "r", "o", "u", "n", "d" >>,
    mod      |-> << "m", "o", "d" >>,
    rand     |-> << "r", "a", "n", "d" >>,
    now      |-> << "n", "o", "w" >>,
    curdate  |-> << "c", "u", "r", "d", "a", "t", "e" >>,
    curtime  |-> << "c", "u", "r", "t", "i", "m", "e" >>,
    year     |-> << "y", "e", "a", "r" >>,
    month    |-> << "m", "o", "n", "t", "h" >>,
    day      |-> << "d", "a", "y" >>,
    char_length |-> << "c", "h", "a", "r", "_", "l", "e", "n", "g", "t", "h" >>,
    select   |-> << "s", "e", "l", "e", "c", "t" >>,
    from     |-> << "f", "r", "o", "m" >>,
    where    |-> << "w", "h", "e", "r", "e" >>,
    and      |-> << "a", "n", "d" >>,
    order    |-> << "o", "r", "d", "e", "r" >>,
    by       |-> << "b", "y" >>,
    LOWER    |-> << "L", "O", "W", "E", "R" >>,
    UPPER    |-> << "U", "P", "P", "E", "R" >>,
    _id      |-> << "_", "i", "d" >>,
    _date    |-> << "_", "d", "a", "t", "e" >>,
    _time    |-> << "_", "t", "i", "m", "e" >>,
    _status  |-> << "_", "s", "t", "a", "t", "u", "s" >>,
    _type    |-> << "_", "t", "y", "p", "e" >> ]

\* The characters of tok in a table of names.
CharsIn(table, tok) == IF tok \in DOMAIN table THEN table[tok] ELSE << tok >>

Chars(tok) == CharsIn(Spell, tok)

\* A list of names, each as its characters.
Spelled(names) == [i \in 1..Len(names) |-> Chars(names[i])]

UpperLetters == {UpperAlphabet[i] : i \in 1..26}

LowerChar(c) ==
  IF c \in UpperLetters
    THEN LowerAlphabet[CHOOSE i \in 1..26 : UpperAlphabet[i] = c]
    ELSE c

\* str.lower()
Lower(s) == [i \in 1..Len(s) |-> LowerChar(s[i])]

\* str.endswith
EndsWith(chars, suffix) ==
  /\ Len(suffix) <= Len(chars)
  /\ SubSeq(chars, Len(chars) - Len(suffix) + 1, Len(chars)) = suffix

\* The characters str.isspace() holds for, among those a text of the model
\* is made of: blank, tab, newline, carriage return, form feed, and the
\* vertical tab and the four separators 0x1c-0x1f, written as tokens.
Whitespace == {" ", "\t", "\n", "\r", "\f", "vt", "fs", "gs", "rs", "us"}

\* The backquote character, which a string literal of this language cannot hold.
BackQuote == "bq"

\* SHOW INDEX FROM <backquote>orders<backquote>
QueryShowIndex ==
  << "S","H","O","W"," ","I","N","D","E","X"," ","F","R","O","M"," ",BackQuote,"o","r","d","e","r","s",BackQuote >>

\* SHOW DATABASES
QueryShowDatabases ==
  << "S","H","O","W"," ","D","A","T","A","B","A","S","E","S" >>

\* SELECT COUNT( * ) as cnt FROM information_schema.tables WHERE table_schema = %s AND table_name = %s
QueryTableExists ==
  << "S","E","L","E","C","T"," ","C","O","U","N","T","(","*",")"," ","a","s"," ","c","n","t"," ","F",
     "R","O","M"," ","i","n","f","o","r","m","a","t","i","o","n","_","s","c","h","e","m","a",".","t",
     "a","b","l","e","s"," ","W","H","E","R","E"," ","t","a","b","l","e","_","s","c","h","e","m","a",
     " ","="," ","%","s"," ","A","N","D"," ","t","a","b","l","e","_","n","a","m","e"," ","="," ","%",
     "s" >>

\* SELECT COUNT( * ) as row_count FROM <backquote>shop<backquote>.<backquote>orders<backquote>
QueryRowCount ==
  << "S","E","L","E","C","T"," ","C","O","U","N","T","(","*",")"," ","a","s"," ","r","o","w","_","c",
     "o","u","n","t"," ","F","R","O","M"," ",BackQuote,"s","h","o","p",BackQuote,".",BackQuote,"o","r","d","e","r","s",
     BackQuote >>

\* select * from a join b on a.id = b.id
QueryJoinNoWhere ==
  << "s","e","l","e","c","t"," ","*"," ","f","r","o","m"," ","a"," ","j","o","i","n"," ","b"," ","o",
     "n"," ","a",".","i","d"," ","="," ","b",".","i","d" >>

\* delete from orders
QueryDelete ==
  << "d","e","l","e","t","e"," ","f","r","o","m"," ","o","r","d","e","r","s" >>

\* insert into orders values (1)
QueryInsert ==
  << "i","n","s","e","r","t"," ","i","n","t","o"," ","o","r","d","e","r","s"," ","v","a","l","u",
     "e","s"," ","(","1",")" >>

\* SHOW INDEX FROM <backquote>user_updates<backquote>
QueryShowIndexUpdates ==
  << "S","H","O","W"," ","I","N","D","E","X"," ","F","R","O","M"," ",BackQuote,"u","s","e","r","_",
     "u","p","d","a","t","e","s",BackQuote >>

\* A statement written on a line of its own: newline, indent, SELECT 1, newline
QuerySelectPadded ==
  << "\n"," "," ","S","E","L","E","C","T"," ","1","\n" >>

\* The statements handed to execute_safe_query, by name.
QueryNames ==
  {"show_index", "show_databases", "table_exists", "row_count", "join_no_where", "delete",
   "insert", "show_index_updates", "select_padded"}

QueryText(q) ==
  CASE q = "show_index"     -> QueryShowIndex
    [] q = "show_databases" -> QueryShowDatabases
    [] q = "table_exists"   -> QueryTableExists
    [] q = "row_count"      -> QueryRowCount
    [] q = "join_no_where"  -> QueryJoinNoWhere
    [] q = "delete"         -> QueryDelete
    [] q = "insert"         -> QueryInsert
    [] q = "show_index_updates" -> QueryShowIndexUpdates
    [] q = "select_padded"  -> QuerySelectPadded

(***************************************************************************)
(* Part A.  Connection helpers.                                            *)
(***************************************************************************)
dangerous_keywords ==
  << <<"I","N","S","E","R","T">>, <<"U","P","D","A","T","E">>, <<"D","E","L","E","T","E">>,
     <<"D","R","O","P">>, <<"C","R","E","A","T","E">>, <<"A","L","T","E","R">>,
     <<"T","R","U","N","C","A","T","E">> >>

\* database_helper.py:242  any(keyword in query.upper() ...)
IsDangerous(text) ==
  \E k \in 1..Len(dangerous_keywords) : Contains(Upper(text), dangerous_keywords[k])

\* database_helper.py:251-253  SELECT without WHERE that joins or has two FROMs
IsFullScan(text) ==
  LET u == Upper(text) IN
  /\ StartsWith(u, <<"S","E","L","E","C","T">>)
  /\ ~Contains(u, <<"W","H","E","R","E">>)
  /\ \/ Contains(u, <<"J","O","I","N">>)
     \/ /\ Contains(u, <<"F","R","O","M">>)
        /\ CountOf(u, <<"F","R","O","M">>) > 1

\* Connections orphaned (never closed, only finalised by the runtime) kept in the model.
MaxOrphans == 2

Classes == {"DatabaseHelper", "DatabaseConnectionManager"}

VARIABLES
  cls,          \* which helper class the instance is
  pc,           \* position of the single thread inside the helper
  op,           \* the public operation in progress (or the last one, when pc = "idle")
  query,        \* statement of the execute_safe_query in progress
  conn,         \* the working connection object: "none", "open", "lost", "closed"
  registered,   \* self._active_connection is not None
  topo,         \* connection of get_standby_hostname: "none" or "open"
  chk,          \* check_conn of get_safe_connection: "none" or "open"
  rc,           \* connection of DatabaseHelper.get_table_row_count: "none" or "open"
  orphans,      \* open connections no variable refers to any more
  standby,      \* get_standby_hostname found a replica
  acquired,     \* the operation in progress obtained a working connection
  session,      \* "scoped" once the SET SESSION statements ran on the working connection
  lq,           \* the last statement run for a caller: by which operation, on what session
  lc,           \* the last connection opened for statements: to which host, after what lookup
  result        \* status of the last return: "none","success","error","rejected","raised"

connVars ==
  << cls, pc, op, query, conn, registered, topo, chk, rc, orphans, standby, acquired, result,
     session, lq, lc >>

\* database_helper.py:140, 172, 182, 451  connect_timeout of every pymysql.connect
ConnectTimeout == 5

NoQuery ==
  [via |-> "none", scoped |-> FALSE, connect_timeout |-> 0, statement |-> "none", committed |-> FALSE]

\* str.strip(): the text without its leading and trailing whitespace
Strip(s) ==
  LET kept == {i \in 1..Len(s) : s[i] \notin Whitespace}
  IN IF kept = {} THEN << >>
     ELSE SubSeq(s, CHOOSE i \in kept : \A j \in kept : i <= j,
                    CHOOSE i \in kept : \A j \in kept : j <= i)

\* db_connection_manager.py:293-302  connection.commit() follows every
\* statement that does not start with SELECT
CommitsAfterExecute(text) ==
  ~StartsWith(Upper(Strip(text)), <<"S","E","L","E","C","T">>)

NoConnect == [host |-> "none", resolved |-> FALSE, replica_found |-> FALSE]

B2N(b) == IF b THEN 1 ELSE 0

Min(a, b) == IF a <= b THEN a ELSE b

\* Number of outbound connections open at this moment.
OpenCount ==
  B2N(topo = "open") + B2N(chk = "open") + B2N(conn = "open") + B2N(rc = "open") + orphans

\* DatabaseHelper.__init__ / DatabaseConnectionManager.__init__
InitConn ==
  /\ cls \in Classes
  /\ pc = "idle"
  /\ op = "none"
  /\ query = "none"
  /\ conn = "none"
  /\ registered = FALSE
  /\ topo = "none"
  /\ chk = "none"
  /\ rc = "none"
  /\ orphans = 0
  /\ standby = FALSE
  /\ acquired = FALSE
  /\ result = "none"
  /\ session = "none"
  /\ lq = NoQuery
  /\ lc = NoConnect

\* n open connections lose their last reference without close(): the runtime
\* finalises each of them at once or leaves it open until a later collection.
DropLocals(n) ==
  \E k \in 0..n : orphans' = Min(orphans + k, MaxOrphans)

\* Return of get_safe_connection to whoever called it.
AfterGsc(ok) ==
  IF op = "get_safe_connection"
    THEN /\ pc' = "idle"
         /\ result' = (IF ok THEN "success" ELSE "error")
         /\ acquired' = ok
    ELSE IF ok
      THEN /\ pc' = "esq_query"
           /\ result' = result
           /\ acquired' = TRUE
      ELSE /\ pc' = "idle"
           /\ result' = "error"
           /\ acquired' = FALSE

\* A caller invokes get_safe_connection directly.
CallGetSafeConnection ==
  /\ pc = "idle"
  /\ op' = "get_safe_connection"
  /\ pc' = "gsc_standby"
  /\ acquired' = FALSE
  /\ result' = "none"
  /\ query' = "none"
  /\ UNCHANGED << cls, conn, registered, topo, chk, rc, orphans, standby, session, lq, lc >>

\* execute_safe_query up to the call of get_safe_connection.
CallExecuteSafeQuery ==
  /\ pc = "idle"
  /\ \E q \in QueryNames :
       /\ query' = q
       /\ IF cls = "DatabaseHelper" /\ (IsDangerous(QueryText(q)) \/ IsFullScan(QueryText(q)))
            THEN /\ pc' = "idle"
                 /\ result' = "rejected"
            ELSE /\ pc' = "gsc_standby"
                 /\ result' = "none"
  /\ op' = "execute_safe_query"
  /\ acquired' = FALSE
  /\ UNCHANGED << cls, conn, registered, topo, chk, rc, orphans, standby, session, lq, lc >>

\* DatabaseHelper.get_table_indexes_from_db up to the call of
\* get_safe_connection: SHOW INDEX FROM the table goes through
\* execute_safe_query; without a database or table name the empty set is
\* returned at once.  The function returns a set when result ends as
\* "success" and None, the uncertain state, otherwise.
CallGetTableIndexesFromDb ==
  /\ pc = "idle"
  /\ cls = "DatabaseHelper"
  /\ \E q \in {"none", "show_index", "show_index_updates"} :
       /\ query' = q
       /\ IF q = "none"
            THEN /\ pc' = "idle"
                 /\ result' = "success"
            ELSE IF IsDangerous(QueryText(q)) \/ IsFullScan(QueryText(q))
              THEN /\ pc' = "idle"
                   /\ result' = "rejected"
              ELSE /\ pc' = "gsc_standby"
                   /\ result' = "none"
  /\ op' = "get_table_indexes_from_db"
  /\ acquired' = FALSE
  /\ UNCHANGED << cls, conn, registered, topo, chk, rc, orphans, standby, session, lq, lc >>

\* close_safe_connection: the registration is cleared only after close() returned.
CloseSafeConnectionBody ==
  IF registered
    THEN \E raises \in BOOLEAN :
           IF raises
             THEN UNCHANGED << conn, registered >>
             ELSE /\ conn' = "closed"
                  /\ registered' = FALSE
    ELSE UNCHANGED << conn, registered >>

CallCloseSafeConnection ==
  /\ pc = "idle"
  /\ op' = "close_safe_connection"
  /\ CloseSafeConnectionBody
  /\ result' = "none"
  /\ acquired' = FALSE
  /\ UNCHANGED << cls, pc, query, topo, chk, rc, orphans, standby, session, lq, lc >>

\* get_standby_hostname: pymysql.connect to the topology database.
StandbyConnect ==
  /\ pc = "gsc_standby"
  /\ \E ok \in BOOLEAN :
       IF ok
         THEN /\ topo' = "open"
              /\ pc' = "gsc_standby_query"
              /\ standby' = standby
         ELSE /\ topo' = "none"
              /\ pc' = "gsc_check_active"
              /\ standby' = FALSE
  /\ UNCHANGED << cls, op, query, conn, registered, chk, rc, orphans, acquired, result, session, lq, lc >>

\* get_standby_hostname: the two cluster queries and the return.
StandbyQuery ==
  /\ pc = "gsc_standby_query"
  /\ \E out \in {"no_master", "no_standby", "found", "exception"} :
       /\ standby' = (out = "found")
       /\ IF out = "exception" THEN DropLocals(1) ELSE orphans' = orphans
  /\ topo' = "none"
  /\ pc' = "gsc_check_active"
  /\ UNCHANGED << cls, op, query, conn, registered, chk, rc, acquired, result, session, lq, lc >>

\* get_safe_connection: the single-active-connection check.
CheckActive ==
  /\ pc = "gsc_check_active"
  /\ IF registered
       THEN AfterGsc(FALSE)
       ELSE /\ pc' = "gsc_precheck_connect"
            /\ UNCHANGED << result, acquired >>
  /\ UNCHANGED << cls, op, query, conn, registered, topo, chk, rc, orphans, standby, session, lq, lc >>

\* get_safe_connection: check_conn = pymysql.connect(host=host, ...), host
\* being the replica get_standby_hostname returned, else the host given; the
\* working connection of Precheck goes to the same host.
PrecheckConnect ==
  /\ pc = "gsc_precheck_connect"
  /\ \E ok \in BOOLEAN :
       IF ok
         THEN /\ chk' = "open"
              /\ pc' = "gsc_precheck"
              /\ lc' = [ host          |-> IF standby THEN "replica" ELSE "given",
                         resolved      |-> TRUE,
                         replica_found |-> standby ]
              /\ UNCHANGED << result, acquired >>
         ELSE /\ chk' = "none"
              /\ lc' = lc
              /\ AfterGsc(FALSE)
  /\ UNCHANGED << cls, op, query, conn, registered, topo, rc, orphans, standby, session, lq >>

\* get_safe_connection: session count, privilege check and the working connect.
Precheck ==
  /\ pc = "gsc_precheck"
  /\ \E out \in {"query_error", "too_many_sessions", "write_priv", "read_only"}, ok \in BOOLEAN :
       CASE out = "query_error" ->
              /\ chk' = "none"
              /\ IF cls = "DatabaseHelper" THEN orphans' = orphans ELSE DropLocals(1)
              /\ conn' = conn
              /\ AfterGsc(FALSE)
         [] out = "too_many_sessions" ->
              /\ chk' = "none"
              /\ orphans' = orphans
              /\ conn' = conn
              /\ AfterGsc(FALSE)
         [] out = "write_priv" ->
              /\ chk' = "none"
              /\ orphans' = orphans
              /\ IF ok
                   THEN /\ conn' = "open"
                        /\ pc' = "gsc_session"
                        /\ UNCHANGED << result, acquired >>
                   ELSE /\ conn' = conn
                        /\ AfterGsc(FALSE)
         [] out = "read_only" ->
              IF ok
                THEN /\ conn' = "open"
                     /\ chk' = chk
                     /\ orphans' = orphans
                     /\ pc' = "gsc_session"
                     /\ UNCHANGED << result, acquired >>
                ELSE /\ conn' = conn
                     /\ chk' = "none"
                     /\ IF cls = "DatabaseHelper" THEN orphans' = orphans ELSE DropLocals(1)
                     /\ AfterGsc(FALSE)
  /\ session' = "none"
  /\ UNCHANGED << cls, op, query, registered, topo, rc, standby, lq, lc >>

\* get_safe_connection: SET SESSION ..., registration and return.
SessionSetup ==
  /\ pc = "gsc_session"
  /\ \E ok \in BOOLEAN :
       IF ok
         THEN /\ registered' = TRUE
              /\ session' = "scoped"
              /\ conn' = conn
              /\ IF chk = "open" THEN DropLocals(1) ELSE orphans' = orphans
              /\ AfterGsc(TRUE)
         ELSE /\ registered' = registered
              /\ session' = "none"
              /\ IF cls = "DatabaseHelper"
                   THEN /\ conn' = "closed"
                        /\ orphans' = orphans
                   ELSE /\ conn' = "none"
                        /\ DropLocals(1 + B2N(chk = "open"))
              /\ AfterGsc(FALSE)
  /\ chk' = "none"
  /\ UNCHANGED << cls, op, query, topo, rc, standby, lq, lc >>

\* execute_safe_query: cursor.execute / fetchall and the except clause.
ExecQuery ==
  /\ pc = "esq_query"
  /\ \E out \in {"ok", "sql_error", "conn_lost"} :
       /\ conn' = (IF out = "conn_lost" THEN "lost" ELSE conn)
       /\ result' = (IF out = "ok" THEN "success"
                     ELSE IF cls = "DatabaseConnectionManager" /\ out = "conn_lost"
                       THEN "raised"
                       ELSE "error")
       /\ lq' = [ via             |-> "execute_safe_query",
                   scoped          |-> session = "scoped",
                   connect_timeout |-> ConnectTimeout,
                   statement       |-> query,
                   committed       |-> /\ cls = "DatabaseConnectionManager"
                                       /\ out = "ok"
                                       /\ CommitsAfterExecute(QueryText(query)) ]
  /\ pc' = "esq_finally"
  /\ UNCHANGED << cls, op, query, registered, topo, chk, rc, orphans, standby, acquired, session, lc >>

\* db_connection_manager.py:348-361  what get_table_row_count makes of the
\* answer of execute_safe_query: the rows come from the default cursor, as
\* tuples, so result['data'][0]['row_count'] raises TypeError whenever the
\* statement succeeded; any other answer is returned as an error.
RowCountReturn(status) ==
  IF status = "success" THEN "raised" ELSE status

\* execute_safe_query: finally: self.close_safe_connection(), and the return
\* to the caller; DatabaseConnectionManager.get_table_row_count goes on with
\* the answer.
ExecFinally ==
  /\ pc = "esq_finally"
  /\ CloseSafeConnectionBody
  /\ pc' = "idle"
  /\ result' = (IF op = "get_table_row_count" THEN RowCountReturn(result) ELSE result)
  /\ UNCHANGED << cls, op, query, topo, chk, rc, orphans, standby, acquired, session, lq, lc >>

\* get_table_row_count: DatabaseHelper connects directly, to the host it was
\* given and without a topology lookup; the manager goes through
\* execute_safe_query.
CallGetTableRowCount ==
  /\ pc = "idle"
  /\ op' = "get_table_row_count"
  /\ acquired' = FALSE
  /\ \E ok \in BOOLEAN :
       IF cls = "DatabaseHelper"
         THEN /\ query' = "none"
              /\ IF ok
                   THEN /\ rc' = "open"
                        /\ lc' = [host |-> "given", resolved |-> FALSE, replica_found |-> FALSE]
                        /\ pc' = "rc_query"
                        /\ result' = "none"
                   ELSE /\ rc' = "none"
                        /\ lc' = lc
                        /\ pc' = "idle"
                        /\ result' = "error"
         ELSE /\ rc' = rc
              /\ lc' = lc
              /\ IF ok
                   THEN /\ query' = "row_count"
                        /\ pc' = "gsc_standby"
                        /\ result' = "none"
                   ELSE /\ query' = "none"
                        /\ pc' = "idle"
                        /\ result' = "error"
  /\ UNCHANGED << cls, conn, registered, topo, chk, orphans, standby, session, lq >>

\* DatabaseHelper.get_table_row_count: the information_schema queries, run on
\* the connection as pymysql.connect returned it (no SET SESSION statement).
RowCountQuery ==
  /\ pc = "rc_query"
  /\ \E out \in {"not_found", "rows", "no_estimate", "exception"} :
       /\ IF out = "exception" THEN DropLocals(1) ELSE orphans' = orphans
       /\ result' = (IF out = "rows" THEN "success" ELSE "error")
  /\ lq' = [ via |-> "get_table_row_count", scoped |-> FALSE, connect_timeout |-> ConnectTimeout,
             statement |-> "information_schema", committed |-> FALSE ]
  /\ rc' = "none"
  /\ pc' = "idle"
  /\ UNCHANGED << cls, op, query, conn, registered, topo, chk, standby, acquired, session, lc >>

\* The runtime finalises an orphaned connection object.
Finalize ==
  /\ orphans > 0
  /\ orphans' = orphans - 1
  /\ UNCHANGED << cls, pc, op, query, conn, registered, topo, chk, rc, standby, acquired, result, session, lq, lc >>

(***************************************************************************)
(* Part B.  The batch loop of analyze_all_slow_queries.                    *)
(***************************************************************************)
\* Longest list get_slow_queries returns in the model.
MaxQueries == 3

\* What _analyze_slow_query does for one record: a result dict, a dict with
\* an 'error' key, None, or an exception.
Outcomes == {"ok", "error_dict", "none", "raises"}

VARIABLES
  slow_queries,   \* the list returned by get_slow_queries, as outcomes
  bpc,            \* "start", "loop", "save", "done"
  bidx,           \* enumerate position of the for loop
  analysed,       \* positions _analyze_slow_query has been called on
  results,        \* the results list (positions of the appended records)
  success_count,
  summary,        \* the summary dict once built, else NoSummary
  breturn         \* "none", "empty" ({}), "summary", "raised"

batchVars ==
  << slow_queries, bpc, bidx, analysed, results, success_count, summary, breturn >>

NoSummary == [total_queries |-> -1]

SeqsUpTo(S, n) == UNION {[1..k -> S] : k \in 0..n}

InitBatch ==
  /\ slow_queries \in SeqsUpTo(Outcomes, MaxQueries)
  /\ bpc = "start"
  /\ bidx = 1
  /\ analysed = {}
  /\ results = << >>
  /\ success_count = 0
  /\ summary = NoSummary
  /\ breturn = "none"

\* analyze_slow_queries.py:1117  `if result and 'error' not in result`
CountsAsSuccess(outcome) == outcome = "ok"

AfterFailure_break(i, n) == n + 1

\* analyze_slow_queries.py:1120-1124  the loop goes on with the next record
\* after a failed one (warning branch, or except ... continue).
AfterFailure(i, n) == i + 1

\* analyze_slow_queries.py:1097-1107
GetSlowQueries ==
  /\ bpc = "start"
  /\ IF Len(slow_queries) = 0
       THEN /\ bpc' = "done"
            /\ breturn' = "empty"
       ELSE /\ bpc' = "loop"
            /\ breturn' = breturn
  /\ UNCHANGED << slow_queries, bidx, analysed, results, success_count, summary >>

\* analyze_slow_queries.py:1113-1124  one iteration of the for loop
AnalyzeOne ==
  /\ bpc = "loop"
  /\ bidx <= Len(slow_queries)
  /\ analysed' = analysed \cup {bidx}
  /\ IF CountsAsSuccess(slow_queries[bidx])
       THEN /\ results' = Append(results, bidx)
            /\ success_count' = success_count + 1
            /\ bidx' = bidx + 1
       ELSE /\ UNCHANGED << results, success_count >>
            /\ bidx' = AfterFailure(bidx, Len(slow_queries))
  /\ UNCHANGED << slow_queries, bpc, summary, breturn >>

\* analyze_slow_queries.py:1129-1135
BuildSummary ==
  /\ bpc = "loop"
  /\ bidx > Len(slow_queries)
  /\ summary' = [ total_queries       |-> Len(slow_queries),
                  successful_analyses |-> success_count,
                  failed_analyses     |-> Len(slow_queries) - success_count,
                  results             |-> results ]
  /\ bpc' = "save"
  /\ UNCHANGED << slow_queries, bidx, analysed, results, success_count, breturn >>

\* analyze_slow_queries.py:1138-1144  json.dump to the output file, return
SaveSummary ==
  /\ bpc = "save"
  /\ \E written \in BOOLEAN :
       breturn' = (IF written THEN "summary" ELSE "raised")
  /\ bpc' = "done"
  /\ UNCHANGED << slow_queries, bidx, analysed, results, success_count, summary >>

(***************************************************************************)
(* Part C.  Advisory entry points.                                         *)
(*                                                                         *)
(* A call carries its statement as clauses; SqlText writes the text the    *)
(* code is given, and the code's regular expressions are matched on that   *)
(* text:                                                                   *)
(*   select {*|id} from t [join u on t.J = u.J] [where C1 and C2 ..]       *)
(*          [ order by created]TAIL                                        *)
(* where a condition is  col = 1,  lower(col) = 1  or  mod(col, 10) = 1,   *)
(* and TAIL is nothing ("end"), one blank ("space") or " limit 10".  Some  *)
(* statements wrap a column in substring or char_length, whose names hold  *)
(* the name of another function, or compare the column ID.                 *)
(* The query object carries at most a table_structure snapshot:            *)
(*   absent     no table_structure key (the index metadata is unknown)     *)
(*   snapshot   {'indexes': [{'Column_name': c}, ..]}                      *)
(*   malformed  {'indexes': None}                                          *)
(* The snapshot may also carry 'row_count'; it is kept as << >> when the   *)
(* key is missing (None) and as << n >> when it is n.  A Column_name is    *)
(* written as the server writes it, possibly in capitals (ID).             *)
(***************************************************************************)
Columns == {"id", "name"}

\* Longest WHERE clause, in conditions.
MaxConds == 2

\* intelligent_optimization_suggestions.py:139-147, 212-219  the names of the
\* function patterns, in the order of the list
function_names ==
  << Chars("lower"), Chars("upper"), Chars("substring"), Chars("concat"), Chars("length"),
     Chars("trim"), Chars("ltrim"), Chars("rtrim"), Chars("abs"), Chars("ceil"),
     Chars("floor"), Chars("round"), Chars("mod"), Chars("rand"), Chars("now"),
     Chars("curdate"), Chars("curtime"), Chars("date"), Chars("time"), Chars("year"),
     Chars("month"), Chars("day") >>

Wrappers == {"none", "lower", "mod"}

\* Number of arguments the wrapped column is written with.
Arity(fn) == IF fn = "mod" THEN 2 ELSE 1

Conditions == [col : Columns, fn : Wrappers]

\* The column a statement may be ordered by; no snapshot indexes it.
OrderColumns == {"created"}

Statements ==
  [ text : {"statement"}, star : BOOLEAN, conds : SeqsUpTo(Conditions, MaxConds),
    tail : {"end", "space", "limit"}, join : Columns \cup {"none"}, order : {"none"} ]

\* The statements without a join, with an ORDER BY clause.
OrderedStatements ==
  [ text : {"statement"}, star : BOOLEAN, conds : SeqsUpTo(Conditions, MaxConds),
    tail : {"end", "space", "limit"}, join : {"none"}, order : OrderColumns ]

EmptySql ==
  [ text |-> "empty", star |-> FALSE, conds |-> << >>, tail |-> "end", join |-> "none",
    order |-> "none" ]

\* Functions whose name ends in the name of a listed function or holds a
\* comparison word, and a column written in capitals.
NamedWrappers == {"substring", "char_length"}

\* Statements with one or two conditions on id, name or ID, bare or wrapped
\* in one of these functions.
NamedStatements ==
  { [ text |-> "statement", star |-> FALSE, conds |-> q, tail |-> "limit", join |-> "none",
      order |-> "none" ] :
    q \in {p \in SeqsUpTo([col : Columns \cup {"ID"}, fn : {"none"} \cup NamedWrappers], 2) :
             Len(p) >= 1} }

\* One condition as it is written: COL = 1, FN(COL) = 1, mod(COL, 10) = 1.
ConditionText(c) ==
  IF c.fn = "none" THEN Chars(c.col) \o << " ", "=", " ", "1" >>
  ELSE IF Arity(c.fn) = 1
    THEN Chars(c.fn) \o << "(" >> \o Chars(c.col) \o << ")", " ", "=", " ", "1" >>
    ELSE Chars(c.fn) \o << "(" >> \o Chars(c.col)
           \o << ",", " ", "1", "0", ")", " ", "=", " ", "1" >>

\* The conditions joined by " and ".
RECURSIVE WhereText(_)
WhereText(conds) ==
  IF Len(conds) = 1 THEN ConditionText(conds[1])
  ELSE ConditionText(conds[1]) \o << " " >> \o Chars("and") \o << " " >> \o WhereText(Tail(conds))

\* sql_content: the text of a statement.
SqlText(sql) ==
  IF sql.text = "empty" THEN << >>
  ELSE Chars("select") \o << " " >> \o (IF sql.star THEN << "*" >> ELSE Chars("id"))
         \o << " " >> \o Chars("from") \o << " ", "t" >>
         \o (IF sql.join # "none"
               THEN << " " >> \o Chars("join") \o << " ", "u", " " >> \o Chars("on")
                      \o << " ", "t", "." >> \o Chars(sql.join) \o << " ", "=", " ", "u", "." >>
                      \o Chars(sql.join)
               ELSE << >>)
         \o (IF sql.conds # << >>
               THEN << " " >> \o Chars("where") \o << " " >> \o WhereText(sql.conds)
               ELSE << >>)
         \o (IF sql.order # "none"
               THEN << " " >> \o Chars("order") \o << " " >> \o Chars("by") \o << " " >>
                      \o Chars(sql.order)
               ELSE << >>)
         \o (IF sql.tail = "space" THEN << " " >>
             ELSE IF sql.tail = "limit" THEN << " " >> \o Chars("limit") \o << " ", "1", "0" >>
             ELSE << >>)

\* intelligent_optimization_suggestions.py:433  large-table bottleneck above this
LargeTableRows == 1000000

\* database_optimization_report.py:1665  the row count above which the report
\* body advises cleaning historical data
HistoryCleanupRows == 4000000

\* intelligent_optimization_suggestions.py:300  needs_archiving above this
ArchivingRows == 5000000

\* intelligent_optimization_suggestions.py:298  needs_partitioning above this
PartitioningRows == 10000000

\* Row counts a snapshot carries: zero, one, and each threshold with its successor.
RowCounts ==
  {0, 1} \cup UNION {{t, t + 1} : t \in {LargeTableRows, HistoryCleanupRows, ArchivingRows, PartitioningRows}}

\* The Column_name entries of a snapshot or the Column_name cells of the rows
\* SHOW INDEX returns, as the server writes them: any of the columns, or id
\* in capitals.
IndexSets == (SUBSET Columns) \cup {{"ID"}}

Metas ==
  [kind : {"absent", "malformed"}, indexes : {{}}, row_count : {<< >>}]
    \cup [kind : {"snapshot"}, indexes : IndexSets, row_count : {<< >>}]

\* Snapshots that carry a row count.
SizedMetas ==
  [kind : {"snapshot"}, indexes : IndexSets, row_count : {<< n >> : n \in RowCounts}]

\* What the live database answers to the existence check and to SHOW INDEX;
\* the column "" is a row whose Column_name cell is NULL.
LiveResults ==
  [kind : {"unreachable", "table_missing"}, indexes : {{}}]
    \cup [kind : {"indexes"}, indexes : IndexSets \cup {{""}}]

Take(seq, n) == SubSeq(seq, 1, Min(n, Len(seq)))

Range(seq) == {seq[i] : i \in 1..Len(seq)}

(***************************************************************************)
(* The regular expressions of the generator, matched as re matches them:   *)
(* at the leftmost position, a greedy part as long as possible, a lazy     *)
(* part as short as possible.  Positions count from 1.                     *)
(***************************************************************************)
Digits == {"0", "1", "2", "3", "4", "5", "6", "7", "8", "9"}

\* str(n) for n in 0 .. 9
Digit(n) == << "0", "1", "2", "3", "4", "5", "6", "7", "8", "9" >>[n + 1]

\* re \w, among the characters a text of the model is made of
WordChars ==
  {LowerAlphabet[i] : i \in 1..26} \cup {UpperAlphabet[i] : i \in 1..26} \cup Digits \cup {"_"}

\* The literal lit is in text at position i.
MatchAt(text, i, lit) ==
  /\ i >= 1
  /\ i + Len(lit) - 1 <= Len(text)
  /\ \A j \in 1..Len(lit) : text[i + j - 1] = lit[j]

\* re \s*  the position after the white space that starts at i
RECURSIVE SkipSpace(_, _)
SkipSpace(text, i) ==
  IF i <= Len(text) /\ text[i] \in Whitespace THEN SkipSpace(text, i + 1) ELSE i

\* The position before the white space that ends at i.
RECURSIVE SkipSpaceBack(_, _)
SkipSpaceBack(text, i) ==
  IF i >= 1 /\ text[i] \in Whitespace THEN SkipSpaceBack(text, i - 1) ELSE i

\* re \w+  the last position of the word characters that start at i
RECURSIVE WordEnd(_, _)
WordEnd(text, i) ==
  IF i <= Len(text) /\ text[i] \in WordChars THEN WordEnd(text, i + 1) ELSE i - 1

\* re [\w\.]+  the last position of the word characters and dots that start at i
RECURSIVE PathEnd(_, _)
PathEnd(text, i) ==
  IF i <= Len(text) /\ (text[i] \in WordChars \/ text[i] = ".") THEN PathEnd(text, i + 1)
  ELSE i - 1

\* re \s+lit at position p
SpacedAt(text, p, lit) ==
  LET Word(q) == q > p /\ MatchAt(text, q, lit)
  IN Word(SkipSpace(text, p))

\* re \s+a\s+b at position p
SpacedPairAt(text, p, a, b) ==
  LET Words(q) == q > p /\ MatchAt(text, q, a) /\ SpacedAt(text, q + Len(a), b)
  IN Words(SkipSpace(text, p))

\* re \bword\b at position i
WordAt(text, i, word) ==
  /\ MatchAt(text, i, word)
  /\ (i = 1 \/ text[i - 1] \notin WordChars)
  /\ (i + Len(word) > Len(text) \/ text[i + Len(word)] \notin WordChars)

\* re $ without MULTILINE: the end of the text, or before a last newline
AtEnd(text, p) ==
  \/ p = Len(text) + 1
  \/ p = Len(text) /\ text[p] = "\n"

\* The character class of the captured clause: [^;] after WHERE, [\w,\s]
\* after ORDER BY and GROUP BY.
ClauseChar(kind, c) ==
  IF kind = "where" THEN c # ";"
  ELSE c \in WordChars \/ c = "," \/ c \in Whitespace

\* What ends the captured clause, at position p.
\* where  (?:\s+order\s+by|\s+group\s+by|\s+limit|\s+offset|\s+$)
\* order  (?:\s+limit|\s+offset|$)
\* group  (?:\s+order\s+by|\s+limit|\s+offset|$)
ClauseEndsAt(kind, text, p) ==
  LET Ends(spaced) ==
    IF kind = "where"
       THEN /\ spaced
            /\ \/ SpacedPairAt(text, p, << "o", "r", "d", "e", "r" >>, << "b", "y" >>)
               \/ SpacedPairAt(text, p, << "g", "r", "o", "u", "p" >>, << "b", "y" >>)
               \/ SpacedAt(text, p, << "l", "i", "m", "i", "t" >>)
               \/ SpacedAt(text, p, << "o", "f", "f", "s", "e", "t" >>)
               \/ SkipSpace(text, p) = Len(text) + 1
     ELSE IF kind = "order"
       THEN \/ spaced /\ SpacedAt(text, p, << "l", "i", "m", "i", "t" >>)
            \/ spaced /\ SpacedAt(text, p, << "o", "f", "f", "s", "e", "t" >>)
            \/ AtEnd(text, p)
     ELSE \/ spaced /\ SpacedPairAt(text, p, << "o", "r", "d", "e", "r" >>, << "b", "y" >>)
          \/ spaced /\ SpacedAt(text, p, << "l", "i", "m", "i", "t" >>)
          \/ spaced /\ SpacedAt(text, p, << "o", "f", "f", "s", "e", "t" >>)
          \/ AtEnd(text, p)
  IN Ends(p <= Len(text) /\ text[p] \in Whitespace)

\* The least element of a set of positions that is not empty.
Least(S) == CHOOSE x \in S : \A y \in S : x <= y

\* The least element of S, or none if S is empty.
LeastOr(S, none) == IF S = {} THEN none ELSE Least(S)

\* The lazy clause: the first position e >= g such that text[g..e] is in the
\* class and the end of the clause follows; 0 if there is none.
LazyEnd(kind, text, g) ==
  LET stop == LeastOr({j \in g..Len(text) : ~ClauseChar(kind, text[j])}, Len(text) + 1)
  IN LeastOr({e \in g..(stop - 1) : ClauseEndsAt(kind, text, e + 1)}, 0)

\* The greedy \s+ before the clause gives back one blank at a time: the
\* clause starts at g, the latest of the positions lowest..g at which a
\* clause is found; << >> if at none.
RECURSIVE ClauseFrom(_, _, _, _)
ClauseFrom(kind, text, g, lowest) ==
  IF g < lowest THEN << >>
  ELSE LET EndingAt(e) == IF e # 0 THEN << g, e >> ELSE ClauseFrom(kind, text, g - 1, lowest)
       IN EndingAt(LazyEnd(kind, text, g))

\* The position after the words that open the clause, when they are at i: 0
\* if they are not.  where  |  order\s+by  |  group\s+by
ClauseHead(kind, text, i) ==
  IF kind = "where" THEN (IF MatchAt(text, i, << "w", "h", "e", "r", "e" >>) THEN i + 5 ELSE 0)
  ELSE LET By(q) ==
             IF MatchAt(text, i, Chars(kind)) /\ q > i + 5 /\ MatchAt(text, q, << "b", "y" >>)
               THEN q + 2 ELSE 0
       IN By(SkipSpace(text, i + 5))

\* The clause of the match that starts at i, as << first, last >> positions
\* of group 1; << >> if the pattern does not match at i.
ClauseAt(kind, text, i) ==
  LET After(h, g) == IF h = 0 \/ g = h THEN << >> ELSE ClauseFrom(kind, text, g, h + 1)
      From(h) == After(h, SkipSpace(text, h))
  IN From(ClauseHead(kind, text, i))

\* The clause of the first of the positions heads at which the pattern matches.
RECURSIVE FirstClause(_, _, _)
FirstClause(kind, text, heads) ==
  IF heads = {} THEN << >>
  ELSE LET Found(i, found) ==
             IF found # << >> THEN found ELSE FirstClause(kind, text, heads \ {i})
           At(i) == Found(i, ClauseAt(kind, text, i))
       IN At(Least(heads))

\* re.search: the clause of the leftmost match; << >> without a match.  A
\* match starts where the opening words are.
ClauseSearch(kind, text) ==
  FirstClause(kind, text, {i \in 1..Len(text) : ClauseHead(kind, text, i) # 0})

\* (?:=|>|<|>=|<=|!=|<>|like|in|is|between) at position p: the length of
\* the first alternative that matches, 0 if none does.
OperatorLen(text, p) ==
  IF p > Len(text) THEN 0
  ELSE IF text[p] \in {"=", ">", "<"} THEN 1
  ELSE IF MatchAt(text, p, << "!", "=" >>) THEN 2
  ELSE IF MatchAt(text, p, << "l", "i", "k", "e" >>) THEN 4
  ELSE IF MatchAt(text, p, << "i", "n" >>) THEN 2
  ELSE IF MatchAt(text, p, << "i", "s" >>) THEN 2
  ELSE IF MatchAt(text, p, << "b", "e", "t", "w", "e", "e", "n" >>) THEN 7
  ELSE 0

\* (\w+)\s*(?:..) at pos: the greedy \w+ gives back one character at a
\* time; the last position of the name, 0 if no operator follows any of them.
RECURSIVE FieldEnd(_, _, _)
FieldEnd(text, pos, e) ==
  IF e < pos THEN 0
  ELSE IF OperatorLen(text, SkipSpace(text, e + 1)) > 0 THEN e
  ELSE FieldEnd(text, pos, e - 1)

\* re.findall of the field pattern: the names of the matches from pos on,
\* each at the leftmost position, the search going on after its operator.
\* Inside a word the pattern matches only if it matches where the word
\* begins: the leftmost match is at pos or at the beginning of a word.
RECURSIVE FindFields(_, _)
FindFields(text, pos) ==
  LET Match(first, e, p) ==
        << SubSeq(text, first, e) >> \o FindFields(text, p + OperatorLen(text, p))
      Name(first, e) == Match(first, e, SkipSpace(text, e + 1))
      At(first) == Name(first, FieldEnd(text, first, WordEnd(text, first)))
      Leftmost(starts) == IF starts = {} THEN << >> ELSE At(Least(starts))
  IN Leftmost({i \in pos..Len(text) :
                 /\ i = pos \/ text[i - 1] \notin WordChars
                 /\ FieldEnd(text, i, WordEnd(text, i)) # 0})

\* str.split('.')[-1]
RECURSIVE LastSegment(_)
LastSegment(s) ==
  IF s = << >> \/ s[Len(s)] = "." THEN << >>
  ELSE Append(LastSegment(SubSeq(s, 1, Len(s) - 1)), s[Len(s)])

\* re.findall of on\s+([\w\.]+)\s*=\s*([\w\.]+): for each match the last
\* segment of the left side and of the right side.
JoinAt(text, i) ==
  LET Sides(g, m, p, r, m2) ==
        IF /\ MatchAt(text, i, << "o", "n" >>)
           /\ g > i + 2
           /\ m >= g
           /\ MatchAt(text, p, << "=" >>)
           /\ m2 >= r
          THEN << g, m, r, m2 >>
          ELSE << >>
      Right(g, m, p, r) == Sides(g, m, p, r, PathEnd(text, r))
      Equals(g, m, p) == Right(g, m, p, SkipSpace(text, p + 1))
      Left(g, m) == Equals(g, m, SkipSpace(text, m + 1))
      On(g) == Left(g, PathEnd(text, g))
  IN On(SkipSpace(text, i + 2))

RECURSIVE FindJoins(_, _)
FindJoins(text, pos) ==
  LET Match(at) ==
        << LastSegment(SubSeq(text, at[1], at[2])),
           LastSegment(SubSeq(text, at[3], at[4])) >>
          \o FindJoins(text, at[4] + 1)
      Leftmost(starts) == IF starts = {} THEN << >> ELSE Match(JoinAt(text, Least(starts)))
  IN Leftmost({i \in pos..Len(text) : JoinAt(text, i) # << >>})

\* str.split(sep) for a separator of one character
RECURSIVE Split(_, _)
Split(s, sep) ==
  IF \A i \in 1..Len(s) : s[i] # sep THEN << s >>
  ELSE LET At(k) == << SubSeq(s, 1, k - 1) >> \o Split(SubSeq(s, k + 1, Len(s)), sep)
       IN At(Least({i \in 1..Len(s) : s[i] = sep}))

\* The positions of the opening parentheses of the text.
OpenParens(text) == {p \in 1..Len(text) : text[p] = "("}

\* re func\s*\( matches with its parenthesis at p: the name ends where the
\* white space before p begins.  No word boundary is asked for in front.
CallsAt(text, p, func) ==
  /\ text[p] = "("
  /\ MatchAt(text, SkipSpaceBack(text, p - 1) - Len(func) + 1, func)

\* re \(\s*field\s*\) with its opening parenthesis at p
ArgumentAt(text, p, field) ==
  LET Named(q) ==
        /\ text[p] = "("
        /\ MatchAt(text, q, field)
        /\ MatchAt(text, SkipSpace(text, q + Len(field)), << ")" >>)
  IN Named(SkipSpace(text, p + 1))

\* intelligent_optimization_suggestions.py:180-186  on sql_lower
where_fields(sql_lower) ==
  IF ~Contains(sql_lower, << "w", "h", "e", "r", "e" >>) THEN << >>
  ELSE LET Fields(where_match) ==
             IF where_match = << >> THEN << >>
             ELSE FindFields(SubSeq(sql_lower, where_match[1], where_match[2]), 1)
       IN Fields(ClauseSearch("where", sql_lower))

\* intelligent_optimization_suggestions.py:189-193  both sides of ON a = b
join_fields(sql_lower) ==
  IF ~Contains(sql_lower, << "j", "o", "i", "n" >>) THEN << >> ELSE FindJoins(sql_lower, 1)

\* intelligent_optimization_suggestions.py:196-201, 204-209  the stripped
\* parts of the clause between commas; kind is "order" or "group"
clause_fields(kind, sql_lower) ==
  IF ~Contains(sql_lower, Chars(kind) \o << " " >> \o << "b", "y" >>) THEN << >>
  ELSE LET Stripped(parts) == [k \in 1..Len(parts) |-> Strip(parts[k])]
           Fields(clause_match) ==
             IF clause_match = << >> THEN << >>
             ELSE Stripped(Split(SubSeq(sql_lower, clause_match[1], clause_match[2]), ","))
       IN Fields(ClauseSearch(kind, sql_lower))

\* intelligent_optimization_suggestions.py:196-201
order_by_fields(sql_lower) == clause_fields("order", sql_lower)

\* intelligent_optimization_suggestions.py:204-209
group_by_fields(sql_lower) == clause_fields("group", sql_lower)

\* intelligent_optimization_suggestions.py:221-226  func\s*\(\s*field\s*\)
\* searched in sql_content without regard to case, for each WHERE field
function_fields(fields, sql_content) ==
  LET Wrapped(text) ==
        LET wrapped(field) ==
              \E p \in OpenParens(text) :
                /\ ArgumentAt(text, p, Lower(field))
                /\ \E k \in 1..Len(function_names) : CallsAt(text, p, function_names[k])
        IN SelectSeq(fields, wrapped)
  IN Wrapped(Lower(sql_content))

\* intelligent_optimization_suggestions.py:229-245  the Column_name entries
\* of the snapshot, lower-cased
existing_indexes(meta) ==
  IF meta.kind = "snapshot" THEN {Lower(Chars(col)) : col \in meta.indexes} ELSE {}

\* intelligent_optimization_suggestions.py:249
indexed_fields(all_fields, existing) ==
  {Lower(f) : f \in {g \in all_fields : Lower(g) \in existing}}

\* intelligent_optimization_suggestions.py:248-258
index_coverage(fields, joined, existing) ==
  LET Coverage(all_fields, indexed) ==
        IF Cardinality(all_fields) = 0 THEN "no_conditions"
        ELSE IF Cardinality(indexed) = Cardinality(all_fields) THEN "fully_covered"
        ELSE IF Cardinality(indexed) > 0 THEN "partially_covered"
        ELSE "not_covered"
      Of(all_fields) == Coverage(all_fields, indexed_fields(all_fields, existing))
  IN Of(Range(fields \o joined))

\* intelligent_optimization_suggestions.py:261-263
missing_indexes(fields, wrapped, existing) ==
  LET missing(f) == Lower(f) \notin existing /\ f \notin Range(wrapped)
  IN SelectSeq(fields, missing)

NoAnalysis ==
  [ ran |-> FALSE, where_fields |-> << >>, join_fields |-> << >>, order_by_fields |-> << >>,
    group_by_fields |-> << >>, function_fields |-> << >>,
    existing_indexes |-> {}, missing_indexes |-> << >>, index_coverage |-> "unknown" ]

\* intelligent_optimization_suggestions.py:158-265
AnalyzeIndexRequirements(sql_content, meta) ==
  LET Analysis(sql_lower, fields, joined, wrapped, existing) ==
        [ ran              |-> TRUE,
          where_fields     |-> fields,
          join_fields      |-> joined,
          order_by_fields  |-> order_by_fields(sql_lower),
          group_by_fields  |-> group_by_fields(sql_lower),
          function_fields  |-> wrapped,
          existing_indexes |-> existing,
          missing_indexes  |-> missing_indexes(fields, wrapped, existing),
          index_coverage   |-> index_coverage(fields, joined, existing) ]
      Fields(sql_lower, fields) ==
        Analysis(sql_lower, fields, join_fields(sql_lower),
                 function_fields(fields, sql_content), existing_indexes(meta))
      Lowered(sql_lower) == Fields(sql_lower, where_fields(sql_lower))
  IN Lowered(Lower(sql_content))

\* intelligent_optimization_suggestions.py:116  select\s+[^)]+\s*\( : after
\* select and one blank, an opening parenthesis that at least one character
\* comes before, and no closing one in between.
OpensBeforeClosing(text, first) ==
  LET stop == LeastOr({j \in first..Len(text) : text[j] = ")"}, Len(text) + 1)
  IN \E j \in (first + 1)..(stop - 1) : text[j] = "("

has_subquery(sql_lower) ==
  \E i \in 1..Len(sql_lower) :
    /\ MatchAt(sql_lower, i, Chars("select"))
    /\ i + 6 <= Len(sql_lower)
    /\ sql_lower[i + 6] \in Whitespace
    /\ OpensBeforeClosing(sql_lower, i + 7)

\* intelligent_optimization_suggestions.py:139-156  the names whose pattern
\* func\s*\( is found in sql_content, without regard to case
detect_sql_functions(sql_content) ==
  LET Detected(text) ==
        LET found(func) == \E p \in OpenParens(text) : CallsAt(text, p, func)
        IN SelectSeq(function_names, found)
  IN Detected(Lower(sql_content))

\* intelligent_optimization_suggestions.py:110-137
AnalyzeSqlStructure(sql_content) ==
  LET Structure(has_select_star, has_join, subquery, has_order_by, has_group_by, has_or,
                has_function) ==
        [ has_select_star  |-> has_select_star,
          has_join         |-> has_join,
          has_subquery     |-> subquery,
          has_order_by     |-> has_order_by,
          has_group_by     |-> has_group_by,
          has_or           |-> has_or,
          has_function     |-> has_function,
          complexity_score |-> B2N(has_join) + B2N(subquery) + B2N(has_order_by)
                                 + B2N(has_group_by) + B2N(has_or) + B2N(Len(has_function) > 0) ]
      Lowered(sql_lower) ==
        Structure(Contains(sql_lower, << "s", "e", "l", "e", "c", "t", " ", "*" >>),
                  \E i \in 1..Len(sql_lower) : WordAt(sql_lower, i, << "j", "o", "i", "n" >>),
                  has_subquery(sql_lower),
                  Contains(sql_lower, << "o", "r", "d", "e", "r", " ", "b", "y" >>),
                  Contains(sql_lower, << "g", "r", "o", "u", "p", " ", "b", "y" >>),
                  \E i \in 1..Len(sql_lower) : WordAt(sql_lower, i, << "o", "r" >>),
                  detect_sql_functions(sql_content))
  IN Lowered(Lower(sql_content))

\* str.find(c, start) for one character, positions from 0; -1 if absent
RECURSIVE Find(_, _, _)
Find(s, c, start) ==
  IF start + 1 > Len(s) THEN -1
  ELSE IF s[start + 1] = c THEN start
  ELSE Find(s, c, start + 1)

\* s[lo:hi] starts with c, for lo >= 0; a negative hi counts from the end
SliceStartsWith(s, lo, hi, c) ==
  LET stop == IF hi >= 0 THEN Min(hi, Len(s))
              ELSE IF Len(s) + hi > 0 THEN Len(s) + hi
              ELSE 0
  IN lo < stop /\ s[lo + 1] = c

\* intelligent_optimization_suggestions.py:305-360  the query object of the
\* model carries no execution statistics: execution_frequency is 0 and the
\* statement is no hot query.
AnalyzeQueryPattern(sql_content) ==
  LET Pattern(sql_lower, quote) ==
        [ is_hot_query  |-> FALSE,
          query_pattern |->
            IF Contains(sql_lower, << "l", "i", "k", "e" >>) /\ Contains(sql_content, << "%" >>)
              THEN (IF \/ Find(sql_content, "%", 0) < quote
                       \/ SliceStartsWith(sql_content, quote + 1,
                                          Find(sql_content, "'", quote + 1), "%")
                      THEN "prefix_like" ELSE "suffix_like")
            ELSE IF Contains(sql_lower, << "i", "n" >>) THEN "in_clause"
            ELSE IF Contains(sql_lower, << "b", "e", "t", "w", "e", "e", "n" >>)
              THEN "range_query"
            ELSE IF Cardinality({i \in 1..Len(sql_lower) :
                                   WordAt(sql_lower, i, << "o", "r" >>)}) > 2
              THEN "multiple_or"
            ELSE "standard" ]
  IN Pattern(Lower(sql_content), Find(sql_content, "'", 0))

\* intelligent_optimization_suggestions.py:267-303  a row count of None or 0
\* is falsy and sets neither flag.
AnalyzeTableStructure(meta) ==
  LET Flags(rows) ==
        [ row_count          |-> IF meta.kind = "snapshot" THEN meta.row_count ELSE << >>,
          needs_partitioning |-> rows > PartitioningRows,
          needs_archiving    |-> rows > ArchivingRows ]
  IN Flags(IF meta.kind = "snapshot" /\ meta.row_count # << >> THEN meta.row_count[1] ELSE 0)

\* intelligent_optimization_suggestions.py:433  row_count and row_count > 1000000
is_large_table(ta) == ta.row_count # << >> /\ ta.row_count[1] > LargeTableRows

\* intelligent_optimization_suggestions.py:524-533  table_structure_optimization
TableStructureOptimization(ta) ==
  (IF ta.needs_partitioning THEN << "partition_by_time" >> ELSE << >>)
    \o (IF ta.needs_archiving THEN << "archive_history" >> ELSE << >>)

\* intelligent_optimization_suggestions.py:362-450
IdentifyPerformanceBottlenecks(sa, ia, ta, qa) ==
  (IF ia.where_fields = << >> /\ ia.join_fields = << >> THEN << "missing_filters" >> ELSE << >>)
    \o (IF ia.index_coverage = "not_covered" THEN << "missing_index" >>
        ELSE IF ia.index_coverage = "partially_covered" THEN << "partial_index" >>
        ELSE << >>)
    \o (IF ia.function_fields # << >> THEN << "function_on_indexed_field" >> ELSE << >>)
    \o (IF sa.has_select_star THEN << "select_star" >> ELSE << >>)
    \o (IF sa.complexity_score >= 4 THEN << "complex_query" >> ELSE << >>)
    \o (IF sa.has_or THEN << "or_conditions" >> ELSE << >>)
    \o (IF is_large_table(ta) THEN << "large_table" >> ELSE << >>)
    \o (IF qa.is_hot_query THEN << "hot_query" >> ELSE << >>)

\* '_'.join(fields), ', '.join(fields)
RECURSIVE JoinWith(_, _)
JoinWith(fields, sep) ==
  IF fields = << >> THEN << >>
  ELSE IF Len(fields) = 1 THEN fields[1]
  ELSE fields[1] \o sep \o JoinWith(Tail(fields), sep)

\* intelligent_optimization_suggestions.py:477-500  executable_actions:
\* CREATE INDEX name ON table(columns);
ExecutableActions(ia) ==
  IF ia.where_fields = << >> /\ ia.join_fields = << >> THEN << >>
  ELSE IF ia.missing_indexes = << >> THEN << >>
  ELSE IF Len(ia.missing_indexes) = 1
    THEN << [ name    |-> << "i", "d", "x", "_" >> \o ia.missing_indexes[1],
              table   |-> "t",
              columns |-> << ia.missing_indexes[1] >> ] >>
    ELSE LET Composite(composite_fields) ==
               << [ name    |-> << "i", "d", "x", "_" >> \o JoinWith(composite_fields, << "_" >>)
                                  \o << "_", "c", "o", "m", "p", "o", "s", "i", "t", "e" >>,
                    table   |-> "t",
                    columns |-> composite_fields ] >>
         IN Composite(Take(ia.missing_indexes, 5))

\* intelligent_optimization_suggestions.py:477-522  sql_structure_optimization
SqlStructureOptimization(sa, ia) ==
  (IF ia.where_fields = << >> /\ ia.join_fields = << >> THEN << "add_filter_condition" >> ELSE << >>)
    \o [i \in 1..Len(ia.function_fields) |-> "rewrite_function"]
    \o (IF sa.has_select_star THEN << "avoid_select_star" >> ELSE << >>)
    \o (IF sa.has_or THEN << "rewrite_or_as_union" >> ELSE << >>)
    \o (IF sa.has_subquery THEN << "rewrite_subquery" >> ELSE << >>)

\* intelligent_optimization_suggestions.py:535-543  query_pattern_optimization
QueryPatternOptimization(qa) ==
  (IF qa.query_pattern = "prefix_like" THEN << "prefix_like_fulltext" >> ELSE << >>)
    \o (IF qa.is_hot_query THEN << "hot_query_cache" >> ELSE << >>)

EmptyAdvice ==
  [ kind |-> "empty", diagnosis |-> << >>, statements |-> << >>, bullets |-> << >> ]

ExceptionAdvice ==
  [ kind |-> "exception", diagnosis |-> << >>, statements |-> << >>, bullets |-> << >> ]

\* report_generator_core.py:1245-1253
FallbackAdvice ==
  [ kind       |-> "text",
    diagnosis  |-> << "insufficient_information" >>,
    statements |-> << >>,
    bullets    |-> << "use_explain", "confirm_indexes", "avoid_select_star" >> ]

\* intelligent_optimization_suggestions.py:723-780; the text is made of the
\* first three diagnoses, the index statements and the first two structure
\* and the first two query pattern suggestions: table_structure_optimization
\* is not written out.
FormatSuggestionsForReport(sa, ia, ta, qa) ==
  LET Text(bottlenecks) ==
        [ kind       |-> "text",
          diagnosis  |-> IF bottlenecks = << >> THEN << "well_structured" >>
                         ELSE Take(bottlenecks, 3),
          statements |-> ExecutableActions(ia),
          bullets    |-> Take(SqlStructureOptimization(sa, ia), 2)
                           \o Take(QueryPatternOptimization(qa), 2) ]
  IN Text(IdentifyPerformanceBottlenecks(sa, ia, ta, qa))

\* intelligent_optimization_suggestions.py:747-762  the suggestion section of
\* the text, line by line: the index statements first, then the bullets.
SuggestionSection(adv) ==
  [i \in 1..Len(adv.statements) |-> "index_statement"] \o adv.bullets

\* intelligent_optimization_suggestions.py:293  len(None) raises TypeError
GeneratorRaises(meta) == meta.kind = "malformed"

\* intelligent_optimization_suggestions.py:24-108, 723-780
\* generate_comprehensive_suggestions, then format_suggestions_for_report
GeneratorText(sql_content, meta) ==
  FormatSuggestionsForReport(AnalyzeSqlStructure(sql_content),
                             AnalyzeIndexRequirements(sql_content, meta),
                             AnalyzeTableStructure(meta),
                             AnalyzeQueryPattern(sql_content))

\* database_optimization_report.py:1328-1355.  Line 1355 reads the local
\* table_name, which is only assigned at line 1452: every call that gets
\* that far raises UnboundLocalError.
AnalyzeSqlForOptimization(sql_content, meta, enabled) ==
  IF sql_content = << >> THEN EmptyAdvice
  ELSE IF enabled /\ ~GeneratorRaises(meta) THEN GeneratorText(sql_content, meta)
  ELSE ExceptionAdvice

\* report_generator_core.py:1208-1253; mode "delegating" is the core built
\* with sql_optimizer (database_optimization_report.py:595-601), which leaves
\* intelligent_optimizer unset; "standalone" is the core built without it.
CoreAnalyzeSqlForOptimization(sql_content, meta, mode, enabled) ==
  IF sql_content = << >> THEN EmptyAdvice
  ELSE IF mode = "delegating"
    THEN LET Delegated(r) == IF r.kind = "text" THEN r ELSE FallbackAdvice
         IN Delegated(AnalyzeSqlForOptimization(sql_content, meta, enabled))
    ELSE IF ~GeneratorRaises(meta) THEN GeneratorText(sql_content, meta)
    ELSE FallbackAdvice

\* The index analysis the generator made during the call, if it ran.
AnalysisOf(sql_content, meta, ranGenerator) ==
  IF sql_content # << >> /\ ranGenerator /\ ~GeneratorRaises(meta)
    THEN AnalyzeIndexRequirements(sql_content, meta)
    ELSE NoAnalysis

\* The Column_name cells of the rows SHOW INDEX returned, lower-cased; a row
\* without a column name adds nothing.
\* database_optimization_report.py:440-448, database_helper.py:355-361
LiveIndexedFields(live) == {Lower(Chars(col)) : col \in live.indexes \ {""}}

\* database_optimization_report.py:379-520.  hostname_max is assigned only
\* in the elif branch of line 401; line 427 reads it in every case.  The
\* result is "true", "false" or, when the call raises, "exception".
CheckIndexesExist(database_given, table_name, fields, joined, ordered, meta, live) ==
  LET Verdict(all_fields, existing_indexed_fields) ==
        IF table_name = << >> THEN "false"
        ELSE IF meta.kind = "absent" /\ database_given /\ live.kind # "indexes" THEN "false"
        ELSE IF all_fields = {} THEN "false"
        ELSE IF meta.kind # "absent" \/ ~database_given THEN "exception"
        ELSE IF existing_indexed_fields = {} THEN "false"
        ELSE IF \A f \in all_fields : f \in existing_indexed_fields
          THEN (IF Len(fields) > 1 THEN "false" ELSE "true")
          ELSE "false"
  IN Verdict({Lower(f) : f \in Range(fields \o joined \o ordered)}, LiveIndexedFields(live))

UnknownIndexes == [known |-> FALSE, indexes |-> {}]

\* database_helper.py:322-368  None (the uncertain state) when the query fails
get_table_indexes_from_db(database_given, live) ==
  IF ~database_given THEN [known |-> TRUE, indexes |-> {}]
  ELSE IF live.kind = "indexes" THEN [known |-> TRUE, indexes |-> LiveIndexedFields(live)]
  ELSE UnknownIndexes

\* database_optimization_report.py:361-364  `result if result is not None else set()`
GetTableIndexesFromDb(database_given, live) ==
  LET found == get_table_indexes_from_db(database_given, live)
  IN IF found.known THEN found ELSE [known |-> TRUE, indexes |-> {}]

\* What the live database answers when a table is looked for: the connection
\* fails, the account may not read the catalog, the table is in no candidate
\* database, it is in the database named by the caller, or in another one.
LocateResults ==
  [kind : {"unreachable", "denied", "table_missing", "in_given", "in_other"}, indexes : {{}}]

\* database_helper.py:227-292  execute_safe_query answers 'success' with rows
\* only when the statement passes the keyword screens and the database
\* answers; the connection failure and the permission failure both give 'error'.
SafeQuerySucceeds(q, live) ==
  /\ ~IsDangerous(QueryText(q))
  /\ ~IsFullScan(QueryText(q))
  /\ live.kind \notin {"unreachable", "denied"}

\* database_helper.py:294-320
check_table_exists(database_given, live) ==
  IF ~database_given THEN FALSE
  ELSE IF SafeQuerySucceeds("table_exists", live) THEN live.kind = "in_given"
  ELSE FALSE

\* database_helper.py:370-418  the name of the database found, "" if none
find_correct_database_for_table(live) ==
  IF ~SafeQuerySucceeds("show_databases", live) THEN ""
  ELSE IF SafeQuerySucceeds("table_exists", live) /\ live.kind = "in_given" THEN "db"
  ELSE IF SafeQuerySucceeds("table_exists", live) /\ live.kind = "in_other" THEN "other"
  ELSE ""

\* The database names of the slow-query record and of the live server, as
\* texts; "" is a record that names no database, "blank" one whose name is
\* a blank and a tab.
DbNameChars ==
  [ db |-> << "d", "b" >>, t |-> << "t" >>, shop |-> << "s", "h", "o", "p" >>,
    other |-> << "o", "t", "h", "e", "r" >>, orders_archive |-> << "o", "r", "d", "e", "r", "s", "_",
    "a", "r", "c", "h", "i", "v", "e" >>, None |-> << "N", "o", "n", "e" >>,
    blank |-> << " ", "\t" >> ]

RecordDbNames == {"", "db", "t", "shop", "orders_archive", "None", "blank"}

\* The two-character word shown for a record without a database name.
UnknownLabel == << "un", "known" >>

\* The words shown when the lookup finds no database.
TableNotFoundLabel == << "table_not_found" >>

\* data_masking.py:16-44  the unknown word for an empty name, the text None
\* and a name of whitespace only; a name of up to 2 characters is shown as it
\* is, up to 4 with the first and the last character, up to 6 with the first
\* two and the last two, a longer one with the first three and the last
\* three; stars in between.
mask_db_name(db_name) ==
  LET n == Len(db_name)
      stars(k) == [i \in 1..k |-> "*"]
  IN IF db_name = << >> \/ db_name = << "N", "o", "n", "e" >> THEN UnknownLabel
     ELSE IF Strip(db_name) = << >> THEN UnknownLabel
     ELSE IF n <= 2 THEN db_name
     ELSE IF n <= 4 THEN << db_name[1] >> \o stars(n - 2) \o << db_name[n] >>
     ELSE IF n <= 6 THEN SubSeq(db_name, 1, 2) \o stars(n - 4) \o SubSeq(db_name, n - 1, n)
     ELSE SubSeq(db_name, 1, 3) \o stars(n - 6) \o SubSeq(db_name, n - 2, n)

\* sql_analyzer.py:16-61  the table a statement of the model reads from: t,
\* and none for the empty statement.
extract_table_name(sql) == IF sql.text = "empty" THEN "" ELSE "t"

\* report_generator_core.py:515-532  the database shown for the statement:
\* the masked name of the record (the unknown word when the record has
\* none); when that is the unknown word, 'db' or 't', the statement names a
\* table and the report has a database helper, the database is looked up and
\* the masked name found is shown, or 'table not found' when the lookup
\* returns nothing.
DatabaseLabel(record_db_name, table_name, db_helper, live) ==
  LET db_name == mask_db_name(IF record_db_name = "" THEN UnknownLabel
                              ELSE DbNameChars[record_db_name])
  IN IF db_name \in {UnknownLabel, DbNameChars["db"], DbNameChars["t"]}
          /\ table_name # "" /\ db_helper
       THEN LET correct_db == find_correct_database_for_table(live)
            IN IF correct_db # "" THEN mask_db_name(DbNameChars[correct_db])
               ELSE TableNotFoundLabel
       ELSE db_name

NotLocated == [exists |-> FALSE, database |-> "", label |-> << >>]

\* database_optimization_report.py:398-409, 432-438  where _check_indexes_exist
\* looks for the indexes, in order: the existence check and SHOW INDEX both go
\* to the database named by the caller; with a snapshot in the query object
\* the existence check is skipped and line 427 raises before SHOW INDEX.
CheckIndexesSources(database_given, meta) ==
  IF meta.kind = "absent" /\ database_given THEN << "live_hinted" >> ELSE << >>

\* intelligent_optimization_suggestions.py:229-245  the generator reads the
\* indexes from the snapshot of the query object and from nowhere else.
GeneratorSources(sql, meta, ranGenerator) ==
  IF sql.text # "empty" /\ ranGenerator /\ meta.kind # "absent"
    THEN << "snapshot" >>
    ELSE << >>

VARIABLES
  located,    \* what the table lookup returned and the database label shown
  consulted,  \* where the call looked for the index profile, in order
  call,       \* the call being made: entry point, configuration and arguments
  apc,        \* "call" before the entry point ran, "done" after
  analysis,   \* index_analysis of the generator, NoAnalysis if it did not run
  advice,     \* what the advisory entry point returned
  verdict,    \* what _check_indexes_exist returned: "none","true","false","exception"
  indexes_out \* what _get_table_indexes_from_db returned

advisoryVars == << call, apc, analysis, advice, verdict, indexes_out, located, consulted >>

DefaultLive == [kind |-> "unreachable", indexes |-> {}]

\* The entry points and how they are built.  enabled: the report imported
\* the generator (INTELLIGENT_OPTIMIZER_ENABLED).  mode is how the core was
\* built; the entry point of the report has none and is listed once.  The
\* standalone core does not read the flag and is listed with the flag set.
Entries ==
  {e \in [entry : {"report", "core"}, enabled : BOOLEAN, mode : {"delegating", "standalone"}] :
     /\ e.entry = "report" => e.mode = "delegating"
     /\ e.mode = "standalone" => e.enabled}

\* The calls of these entry points with the given arguments.
CallsWith(arguments) ==
  { [ entry |-> e.entry, enabled |-> e.enabled, mode |-> e.mode, sql |-> a.sql,
      meta |-> a.meta, database_given |-> TRUE, live |-> a.live ] :
    e \in Entries, a \in arguments }

AdvisoryCalls ==
  CallsWith([ sql : Statements \cup {EmptySql}, meta : Metas,
              live : {DefaultLive} ])

\* Calls of the index check: the table is t; the field lists are those the
\* caller extracted, a column possibly in capitals.
CheckCalls ==
  [ entry : {"check_indexes"}, enabled : {FALSE}, mode : {"delegating"}, sql : {EmptySql},
    table_name : {"t"},
    where_fields : SeqsUpTo(Columns \cup {"ID"}, MaxConds),
    join_fields : {<< >>} \cup {<< c, c >> : c \in Columns},
    order_by_fields : {<< >>} \cup {<< c >> : c \in OrderColumns},
    meta : Metas, database_given : BOOLEAN, live : LiveResults ]

IndexCalls ==
  [ entry : {"get_table_indexes"}, enabled : {FALSE}, mode : {"delegating"},
    sql : {EmptySql}, meta : {[kind |-> "absent", indexes |-> {}, row_count |-> << >>]},
    database_given : BOOLEAN, live : LiveResults ]

\* Calls for a statement with an ORDER BY clause.
OrderedCalls ==
  CallsWith([ sql : OrderedStatements, meta : Metas,
              live : {DefaultLive} ])

\* Calls for a statement with one WHERE condition and a snapshot with a row count.
SizedCalls ==
  CallsWith([ sql : [ text : {"statement"}, star : BOOLEAN, conds : [1..1 -> Conditions],
                      tail : {"end", "space", "limit"}, join : {"none"}, order : {"none"} ],
              meta : SizedMetas, live : {DefaultLive} ])

\* Calls for a statement with a function whose name holds another name, or
\* with a column in capitals; the query object has a snapshot.
NamedCalls ==
  CallsWith([ sql : NamedStatements,
              meta : [kind : {"snapshot"}, indexes : IndexSets, row_count : {<< >>}],
              live : {DefaultLive} ])

\* The columns of a long WHERE clause, in the order they are written.
WideFields == << "c1", "c2", "c3", "c4", "c5", "c6" >>

\* Statements whose WHERE clause compares the first k of them, k = 2 .. 6.
WideStatements ==
  { [ text |-> "statement", star |-> FALSE,
      conds |-> [i \in 1..k |-> [col |-> WideFields[i], fn |-> "none"]],
      tail |-> "limit", join |-> "none", order |-> "none" ] : k \in 2..Len(WideFields) }

\* Calls for a statement with a long WHERE clause; the snapshot indexes none
\* of its columns or the first one.
WideCalls ==
  CallsWith([ sql : WideStatements,
              meta : [kind : {"snapshot"}, indexes : {{}, {WideFields[1]}}, row_count : {<< >>}],
              live : {DefaultLive} ])

\* Statements whose WHERE clause compares one column both wrapped and bare,
\* and the other column bare.
MixedStatements ==
  { [ text |-> "statement", star |-> st,
      conds |-> << [col |-> c, fn |-> "lower"], [col |-> c, fn |-> "none"],
                   [col |-> d, fn |-> "none"] >>,
      tail |-> "limit", join |-> "none", order |-> "none" ] :
    st \in BOOLEAN, c \in Columns, d \in Columns }

\* The live database of these calls is unreachable, lacks the table or holds
\* it with any set of indexed columns.
MixedCalls ==
  CallsWith([ sql : MixedStatements,
              meta : [kind : {"snapshot"}, indexes : SUBSET Columns, row_count : {<< >>}],
              live : LiveResults ])

\* Lookups of the table t in the live database.
LocateCalls ==
  [ entry : {"locate_table"}, enabled : {FALSE}, mode : {"delegating"},
    sql : {EmptySql}, meta : {[kind |-> "absent", indexes |-> {}, row_count |-> << >>]},
    database_given : BOOLEAN, live : LocateResults ]

\* select * from t
TableStatement ==
  [ text |-> "statement", star |-> TRUE, conds |-> << >>, tail |-> "end", join |-> "none",
    order |-> "none" ]

\* Rows of the statement table of the report: the record has a statement,
\* empty or reading from t, and a database name or none; the report was
\* built with or without a database helper.
LabelCalls ==
  [ entry : {"database_label"}, enabled : {FALSE}, mode : {"delegating"},
    sql : {EmptySql, TableStatement},
    meta : {[kind |-> "absent", indexes |-> {}, row_count |-> << >>]},
    database_given : {TRUE}, live : LocateResults, record_db_name : RecordDbNames,
    db_helper : BOOLEAN ]

NoCall ==
  [ entry |-> "none", enabled |-> FALSE, mode |-> "delegating", sql |-> EmptySql,
    meta |-> [kind |-> "absent", indexes |-> {}, row_count |-> << >>], database_given |-> TRUE, live |-> DefaultLive ]

QuietAdvisory ==
  /\ call = NoCall
  /\ apc = "call"
  /\ analysis = NoAnalysis
  /\ advice = EmptyAdvice
  /\ verdict = "none"
  /\ indexes_out = UnknownIndexes
  /\ located = NotLocated
  /\ consulted = << >>

InitAdvisory ==
  /\ call \in AdvisoryCalls \cup OrderedCalls \cup SizedCalls \cup WideCalls \cup MixedCalls
               \cup NamedCalls
               \cup CheckCalls
               \cup IndexCalls \cup LocateCalls \cup LabelCalls
  /\ apc = "call"
  /\ analysis = NoAnalysis
  /\ advice = EmptyAdvice
  /\ verdict = "none"
  /\ indexes_out = UnknownIndexes
  /\ located = NotLocated
  /\ consulted = << >>

\* DatabaseOptimizationReport._analyze_sql_for_optimization
ReportAnalyze ==
  /\ apc = "call"
  /\ call.entry = "report"
  /\ advice' = AnalyzeSqlForOptimization(SqlText(call.sql), call.meta, call.enabled)
  /\ analysis' = AnalysisOf(SqlText(call.sql), call.meta, call.enabled)
  /\ consulted' = GeneratorSources(call.sql, call.meta, call.enabled)
  /\ apc' = "done"
  /\ UNCHANGED << call, verdict, indexes_out, located >>

\* ReportGeneratorCore.analyze_sql_for_optimization
CoreAnalyze ==
  /\ apc = "call"
  /\ call.entry = "core"
  /\ advice' = CoreAnalyzeSqlForOptimization(SqlText(call.sql), call.meta, call.mode,
                                           call.enabled)
  /\ analysis' = AnalysisOf(SqlText(call.sql), call.meta,
                            IF call.mode = "delegating" THEN call.enabled ELSE TRUE)
  /\ consulted' = GeneratorSources(call.sql, call.meta,
                                   IF call.mode = "delegating" THEN call.enabled ELSE TRUE)
  /\ apc' = "done"
  /\ UNCHANGED << call, verdict, indexes_out, located >>

\* DatabaseOptimizationReport._check_indexes_exist
CheckIndexes ==
  /\ apc = "call"
  /\ call.entry = "check_indexes"
  /\ verdict' = CheckIndexesExist(call.database_given, Chars(call.table_name),
                                  Spelled(call.where_fields), Spelled(call.join_fields),
                                  Spelled(call.order_by_fields), call.meta, call.live)
  /\ consulted' = CheckIndexesSources(call.database_given, call.meta)
  /\ apc' = "done"
  /\ UNCHANGED << call, analysis, advice, indexes_out, located >>

\* DatabaseOptimizationReport._get_table_indexes_from_db
GetTableIndexes ==
  /\ apc = "call"
  /\ call.entry = "get_table_indexes"
  /\ indexes_out' = GetTableIndexesFromDb(call.database_given, call.live)
  /\ apc' = "done"
  /\ UNCHANGED << call, analysis, advice, verdict, located, consulted >>

\* DatabaseHelper.check_table_exists and find_correct_database_for_table
LocateTable ==
  /\ apc = "call"
  /\ call.entry = "locate_table"
  /\ located' = [ located EXCEPT
                    !.exists   = check_table_exists(call.database_given, call.live),
                    !.database = find_correct_database_for_table(call.live) ]
  /\ apc' = "done"
  /\ UNCHANGED << call, analysis, advice, verdict, indexes_out, consulted >>

\* ReportGeneratorCore.generate_top_sql_statements: the database cell of the
\* row of one record
LabelDatabase ==
  /\ apc = "call"
  /\ call.entry = "database_label"
  /\ located' = [ located EXCEPT
                    !.label = DatabaseLabel(call.record_db_name, extract_table_name(call.sql),
                                            call.db_helper, call.live) ]
  /\ apc' = "done"
  /\ UNCHANGED << call, analysis, advice, verdict, indexes_out, consulted >>

(***************************************************************************)
(* Part D.  Field extractors of sql_analyzer.py and the advisory entry     *)
(* point, run twice (two processes) on the same statement and the same     *)
(* index profile.  list(set(..)) yields the elements in the iteration      *)
(* order of a set of str, which follows the string hashes of the process   *)
(* (salted per process) and the order of insertion: each call may give any *)
(* order.  The statement is                                                *)
(*   select * from t [join u on J1 = a0 [and J2 = a1]]                     *)
(*     [where W1 = 1 [and W2 = 2]] [order by O1 [, O2]]                    *)
(* and a name matched after ON or ORDER BY may be the keyword from.  The   *)
(* composer of the analyzer is given the table structure of the result as  *)
(* well: empty, the answer for a table not found, or the columns of the    *)
(* table with or without a primary key.                                    *)
(***************************************************************************)
Runs == {1, 2}

\* Most columns matched in one JOIN .. ON condition or one ORDER BY clause.
MaxMatches == 2

Perms(S) ==
  {p \in [1..Cardinality(S) -> S] : \A a, b \in 1..Cardinality(S) : a # b => p[a] # p[b]}

\* The distinct elements of fields in the order of their first occurrence:
\* the order in which set(fields) inserts them.
InsertionOrder(fields) ==
  LET first == {i \in 1..Len(fields) : \A j \in 1..(i - 1) : fields[j] # fields[i]}
  IN [k \in 1..Cardinality(first) |->
        fields[CHOOSE i \in first : Cardinality({j \in first : j < i}) = k - 1]]

\* list(set(fields)) in a call in which the set iterates in the order `order`.
ListOfSet(fields, order) ==
  LET member(f) == f \in Range(fields)
  IN SelectSeq(order, member)

\* The words in capitals, as the extractors compare field.upper() with them.
Keywords(words) == {Upper(Chars(w)) : w \in words}

\* sql_analyzer.py:247  the names the JOIN extractor leaves out
JoinKeywords ==
  Keywords({"select", "from", "where", "and", "or", "not", "in", "like", "between", "on"})

\* sql_analyzer.py:285  the names the ORDER BY extractor leaves out
OrderKeywords ==
  Keywords({"select", "from", "where", "and", "or", "order", "by", "desc", "asc"})

\* sql_analyzer.py:245-248, 283-286  fields: the matches whose name in
\* capitals is none of the keywords
FieldsKept(matches, keywords) ==
  LET kept(field) == Upper(Chars(field)) \notin keywords
  IN SelectSeq(matches, kept)

\* sql_analyzer.py:239-250  left operands of the ON comparisons, list(set(..))
extract_join_fields(matches, order) == ListOfSet(FieldsKept(matches, JoinKeywords), order)

\* sql_analyzer.py:278-288  ORDER BY columns, list(set(..))
extract_order_by_fields(matches, order) == ListOfSet(FieldsKept(matches, OrderKeywords), order)

\* The k-th comparison of a condition: NAME = a0, NAME = a1 after ON and
\* NAME = 1, NAME = 2 after WHERE.
RECURSIVE Comparisons(_, _, _)
Comparisons(names, k, joined) ==
  IF names = << >> THEN << >>
  ELSE Chars(names[1]) \o << " ", "=", " " >>
         \o (IF joined THEN << "a", Digit(k - 1) >> ELSE << Digit(k) >>)
         \o (IF Len(names) = 1 THEN << >>
             ELSE << " " >> \o Chars("and") \o << " " >> \o Comparisons(Tail(names), k + 1, joined))

\* sql_content of the two runs: the text of the statement.
RunText(c) ==
  Chars("select") \o << " ", "*", " " >> \o Chars("from") \o << " ", "t" >>
    \o (IF c.join # << >>
          THEN << " " >> \o Chars("join") \o << " ", "u", " " >> \o Chars("on") \o << " " >>
                 \o Comparisons(c.join, 1, TRUE)
          ELSE << >>)
    \o (IF c.where # << >>
          THEN << " " >> \o Chars("where") \o << " " >> \o Comparisons(c.where, 1, FALSE)
          ELSE << >>)
    \o (IF c.order_by # << >>
          THEN << " " >> \o Chars("order") \o << " " >> \o Chars("by") \o << " " >>
                 \o JoinWith(Spelled(c.order_by), << ",", " " >>)
          ELSE << >>)

\* query['table_structure']['indexes'] of the two runs
ProfileOf(c) == [kind |-> "snapshot", indexes |-> c.existing, row_count |-> << >>]

\* analyze_slow_queries.py:1562-1619  _extract_where_fields,
\* _extract_join_fields and _extract_order_by_fields return lists in the
\* order of the text; the JOIN pattern needs the word ON in front of the
\* comparison, so it matches the first comparison of the condition only.
AnalyzerFields(c) ==
  c.where \o (IF c.join = << >> THEN << >> ELSE << c.join[1] >>) \o c.order_by

\* result['table_structure'] as SlowQueryAnalyzer reads it:
\*   absent          {} (the key is missing or the structure is empty)
\*   not_found       {'error': 'table_not_found'}, what _get_table_structure
\*                   returns for a table it does not find
\*   no_primary_key  {'columns': ..} with no column marked primary_key
\*   primary_key     {'columns': ..} with a column marked primary_key
TableStructures == {"absent", "not_found", "no_primary_key", "primary_key"}

\* analyze_slow_queries.py:1367-1396  _analyze_missing_indexes: nothing is
\* listed for an empty table_structure (line 1371); else the fields are
\* gathered in set(where_fields + join_fields + order_by_fields) and listed
\* in the order that set iterates in; existing_indexes stays empty, so
\* every field is listed.
analyze_missing_indexes(c, order) ==
  IF c.table_structure = "absent" THEN << >> ELSE ListOfSet(AnalyzerFields(c), order)

\* analyze_slow_queries.py:1531-1546  no_primary_key of
\* _analyze_table_structure: False for an empty table_structure, else
\* whether no entry of its 'columns' is marked primary_key; a structure
\* without 'columns' has none.
no_primary_key(table_structure) == table_structure \in {"not_found", "no_primary_key"}

\* analyze_slow_queries.py:1204-1225  the statement for one field, by the
\* kind of its lower-cased name: a key, a time column, a status column or a
\* plain one.
FieldStatement(field) ==
  LET field_lower == Lower(Chars(field))
      one_of(names) == \E n \in names : field_lower = Chars(n)
  IN IF one_of({"id", "pk", "primary_key"}) \/ EndsWith(field_lower, Chars("_id"))
       THEN [name |-> << "PRIMARY" >>, table |-> "t", columns |-> << field >>]
     ELSE IF \/ Contains(field_lower, << "t", "i", "m", "e" >>)
             \/ Contains(field_lower, << "d", "a", "t", "e" >>)
             \/ one_of({"created", "updated", "modified"})
       THEN [name |-> << "idx", "t", field, "time" >>, table |-> "t", columns |-> << field >>]
     ELSE IF one_of({"status", "state", "type", "flag"}) \/ EndsWith(field_lower, Chars("_status"))
       THEN [name |-> << "idx", "t", field, "status" >>, table |-> "t", columns |-> << field >>]
     ELSE [name |-> << "idx", "t", field >>, table |-> "t", columns |-> << field >>]

\* analyze_slow_queries.py:1177-1316  the statements that add a key or an
\* index in the list SlowQueryAnalyzer._generate_intelligent_optimization_suggestions
\* returns, in the order of the list: one per listed field, then a composite
\* index on the first three when more than one field is listed (1200-1233),
\* and at the end ALTER TABLE t ADD PRIMARY KEY (id) when the table
\* structure shows no primary key (1313-1316).  The other lines of the list
\* add none: the verification statements SHOW INDEX, EXPLAIN and ANALYZE
\* TABLE that close the sql block (1236-1241) and the lines of advice; a
\* statement of the model has one JOIN at most and no HAVING, so the
\* patterns of lines 1262-1264 and 1282-1284 are not found in it.
generate_intelligent_optimization_suggestions(c, order) ==
  LET Statements_of(listed, fields) ==
        [i \in 1..Len(listed) |-> FieldStatement(listed[i])]
          \o (IF Len(listed) > 1
                THEN << [ name    |-> << "idx" >> \o fields \o << "composite" >>,
                          table   |-> "t",
                          columns |-> fields ] >>
                ELSE << >>)
          \o (IF no_primary_key(c.table_structure)
                THEN << [name |-> << "PRIMARY" >>, table |-> "t", columns |-> << "id" >>] >>
                ELSE << >>)
      Listed(listed) == Statements_of(listed, Take(listed, 3))
  IN Listed(analyze_missing_indexes(c, order))

\* The statements a run returns.  composer "report":
\* database_optimization_report.py:1328-1355, the statements of the text
\* _analyze_sql_for_optimization returns, those of the generator when it is
\* enabled, none when the call raises at line 1355; the lists it works on
\* keep the order of the text.  composer "analyzer": those of
\* SlowQueryAnalyzer._generate_intelligent_optimization_suggestions.
StatementsOfRun(c, order) ==
  IF c.composer = "analyzer"
    THEN generate_intelligent_optimization_suggestions(c, order)
    ELSE AnalyzeSqlForOptimization(RunText(c), ProfileOf(c), c.enabled).statements

VARIABLES
  cin,         \* the statement (as the raw regex matches), the index profile, the configuration
  hash_order,  \* per run: the order the sets of the extractor calls iterate in
  cpc,         \* per run: "extract", "compose", "done"
  extracted,   \* per run: the extractor results
  composed     \* per run: the statements returned

composeVars == << cin, hash_order, cpc, extracted, composed >>

Composers == {"report", "analyzer"}

\* Statements and table structures given to the composer of the analyzer,
\* which reads no index profile.
AnalyzerInputs ==
  [ where : SeqsUpTo(Columns, MaxMatches), join : SeqsUpTo(Columns, MaxMatches),
    order_by : SeqsUpTo(Columns, MaxMatches), existing : {{}},
    table_structure : TableStructures,
    enabled : {FALSE}, composer : {"analyzer"} ]

\* The names after ON or ORDER BY of the statements given to the report: at
\* most one column, or the keyword from as a column name, alone or after id.
KeywordMatches == {<< >>} \cup {<< c >> : c \in Columns} \cup {<< "from" >>, << "id", "from" >>}

\* The index profiles given to the entry point of the report: no column
\* indexed, one of them, all of them.
ReportProfiles == {{}, {"id"}, Columns}

\* Statements and index profiles given to the entry point of the report,
\* which reads the indexes of the profile and nothing else of the structure.
ReportInputs ==
  [ where : SeqsUpTo(Columns, MaxMatches), join : KeywordMatches,
    order_by : KeywordMatches, existing : ReportProfiles,
    table_structure : {"absent"},
    enabled : BOOLEAN, composer : {"report"} ]

ComposeInputs == AnalyzerInputs \cup ReportInputs

NoExtraction == [join_fields |-> << >>, order_by_fields |-> << >>]

NoOrder == [join |-> << >>, order_by |-> << >>, all_fields |-> << >>]

QuietCompose ==
  /\ cin = [ where |-> << >>, join |-> << >>, order_by |-> << >>, existing |-> {},
             table_structure |-> "absent", enabled |-> FALSE, composer |-> "report" ]
  /\ hash_order = [r \in Runs |-> NoOrder]
  /\ cpc = [r \in Runs |-> "extract"]
  /\ extracted = [r \in Runs |-> NoExtraction]
  /\ composed = [r \in Runs |-> << >>]

InitCompose ==
  /\ cin \in ComposeInputs
  /\ hash_order = [r \in Runs |-> NoOrder]
  /\ cpc = [r \in Runs |-> "extract"]
  /\ extracted = [r \in Runs |-> NoExtraction]
  /\ composed = [r \in Runs |-> << >>]

\* SQLAnalyzer.extract_join_fields and extract_order_by_fields in run r: two
\* sets filled with the same elements in the same order iterate alike.
ExtractFields(r) ==
  /\ cpc[r] = "extract"
  /\ \E oj \in Perms(Columns), oo \in Perms(Columns) :
       /\ InsertionOrder(FieldsKept(cin.join, JoinKeywords))
            = InsertionOrder(FieldsKept(cin.order_by, OrderKeywords)) => oj = oo
       /\ hash_order' = [hash_order EXCEPT ![r] = [join |-> oj, order_by |-> oo, all_fields |-> << >>]]
       /\ extracted' = [extracted EXCEPT ![r] =
            [ join_fields     |-> extract_join_fields(cin.join, oj),
              order_by_fields |-> extract_order_by_fields(cin.order_by, oo) ]]
  /\ cpc' = [cpc EXCEPT ![r] = "compose"]
  /\ UNCHANGED << cin, composed >>

\* The recommendation composer of the analyzer in run r:
\* SlowQueryAnalyzer._generate_intelligent_optimization_suggestions.  Its set
\* iterates in an order of the run; filled in the same order as a set of the
\* extractors in the same run, it iterates as that one did.  With an empty
\* table_structure no set is filled and no order is recorded.
ComposeStatements(r) ==
  /\ cpc[r] = "compose"
  /\ cin.composer = "analyzer"
  /\ \E oa \in (IF cin.table_structure = "absent" THEN {<< >>} ELSE Perms(Columns)) :
       /\ (/\ oa # << >>
           /\ InsertionOrder(AnalyzerFields(cin)) = InsertionOrder(FieldsKept(cin.join, JoinKeywords)))
            => oa = hash_order[r].join
       /\ (/\ oa # << >>
           /\ InsertionOrder(AnalyzerFields(cin))
                = InsertionOrder(FieldsKept(cin.order_by, OrderKeywords)))
            => oa = hash_order[r].order_by
       /\ hash_order' = [hash_order EXCEPT ![r].all_fields = oa]
       /\ composed' = [composed EXCEPT ![r] = StatementsOfRun(cin, oa)]
  /\ cpc' = [cpc EXCEPT ![r] = "done"]
  /\ UNCHANGED << cin, extracted >>

\* The recommendation composer of the report in run r:
\* DatabaseOptimizationReport._analyze_sql_for_optimization, which works on
\* lists and fills no set.
ComposeReport(r) ==
  /\ cpc[r] = "compose"
  /\ cin.composer = "report"
  /\ composed' = [composed EXCEPT ![r] = StatementsOfRun(cin, << >>)]
  /\ cpc' = [cpc EXCEPT ![r] = "done"]
  /\ UNCHANGED << cin, extracted, hash_order >>

(***************************************************************************)
(* Part E.  The estimators of the expected improvement.                    *)
(***************************************************************************)
\* Kinds of suggestion _generate_optimization_suggestions may have filled.
SuggestionKinds ==
  { "index_optimization", "sql_structure_optimization", "query_pattern_optimization",
    "table_structure_optimization", "configuration_optimization", "architecture_optimization" }

\* Suggestion sets the generator can produce: an index suggestion needs a
\* missing index; the archiving advice (rows > 5,000,000) comes with the
\* configuration advice (rows > 1,000,000); the architecture advice (hot
\* query) comes with the query-pattern advice.
SuggestionSets ==
  { k \in SUBSET SuggestionKinds :
      /\ "table_structure_optimization" \in k => "configuration_optimization" \in k
      /\ "architecture_optimization" \in k => "query_pattern_optimization" \in k }

\* Most WHERE fields of the statement handed to the analyzer's estimator.
MaxWhereFields == 3

\* Execution counts of the slow-query record, around the threshold of line 1343.
ExecuteCounts == {0, 1000, 1001}

Max(a, b) == IF a >= b THEN a ELSE b

\* intelligent_optimization_suggestions.py:636-671  base_improvement
ImpactBase(kinds, coverage) ==
  (IF "index_optimization" \in kinds
     THEN (IF coverage = "not_covered" THEN 60
           ELSE IF coverage = "partially_covered" THEN 40 ELSE 0)
     ELSE 0)
  + (IF "sql_structure_optimization" \in kinds THEN 30 ELSE 0)
  + (IF "query_pattern_optimization" \in kinds THEN 25 ELSE 0)
  + (IF "table_structure_optimization" \in kinds THEN 20 ELSE 0)
  + (IF "configuration_optimization" \in kinds THEN 15 ELSE 0)
  + (IF "architecture_optimization" \in kinds THEN 25 ELSE 0)

\* intelligent_optimization_suggestions.py:674-675
EvaluateExpectedImpact(kinds, coverage) ==
  LET base_improvement == ImpactBase(kinds, coverage)
  IN << Max(50, base_improvement - 20), Min(95, base_improvement + 25) >>

\* analyze_slow_queries.py:1325-1350; the estimate is made only when a
\* missing index or a pattern optimisation was found.
AnalyzerImprovement(has_findings, n_where, has_join, execute_cnt) ==
  IF ~has_findings THEN << >>
  ELSE LET base_improvement ==
             60 + (IF n_where >= 3 THEN 25 ELSE IF n_where = 1 THEN 0 - 10 ELSE 0)
                + (IF has_join THEN 15 ELSE 0)
                + (IF execute_cnt > 1000 THEN 10 ELSE 0)
       IN << Max(50, base_improvement - 15), Min(95, base_improvement + 20) >>

VARIABLES
  eargs,    \* the estimator called and its inputs
  epc,      \* "call" before the estimate, "done" after
  erange    \* << min_improvement, max_improvement >>, << >> when none was made

estimateVars == << eargs, epc, erange >>

GeneratorEstimates ==
  [ estimator : {"generator"}, kinds : SuggestionSets,
    coverage : {"no_conditions", "fully_covered", "partially_covered", "not_covered"},
    has_findings : {TRUE}, n_where : {0}, has_join : {FALSE}, execute_cnt : {0} ]

AnalyzerEstimates ==
  [ estimator : {"analyzer"}, kinds : {{}}, coverage : {"no_conditions"},
    has_findings : BOOLEAN, n_where : 0..MaxWhereFields, has_join : BOOLEAN,
    execute_cnt : ExecuteCounts ]

\* An index suggestion is only made when a WHERE field has no index.
EstimatorInputs ==
  { a \in GeneratorEstimates :
      "index_optimization" \in a.kinds => a.coverage \in {"partially_covered", "not_covered"} }
    \cup AnalyzerEstimates

QuietEstimate ==
  /\ eargs = [ estimator |-> "none", kinds |-> {}, coverage |-> "no_conditions",
               has_findings |-> FALSE, n_where |-> 0, has_join |-> FALSE, execute_cnt |-> 0 ]
  /\ epc = "call"
  /\ erange = << >>

InitEstimate ==
  /\ eargs \in EstimatorInputs
  /\ epc = "call"
  /\ erange = << >>

\* IntelligentOptimizationSuggestions._evaluate_expected_impact
GeneratorEstimate ==
  /\ epc = "call"
  /\ eargs.estimator = "generator"
  /\ erange' = EvaluateExpectedImpact(eargs.kinds, eargs.coverage)
  /\ epc' = "done"
  /\ UNCHANGED eargs

\* SlowQueryAnalyzer._generate_intelligent_optimization_suggestions, step 6
AnalyzerEstimate ==
  /\ epc = "call"
  /\ eargs.estimator = "analyzer"
  /\ erange' = AnalyzerImprovement(eargs.has_findings, eargs.n_where, eargs.has_join,
                                   eargs.execute_cnt)
  /\ epc' = "done"
  /\ UNCHANGED eargs

(***************************************************************************)
(* Specifications.  Each one runs one part; the other parts stay as        *)
(* constructed.                                                            *)
(***************************************************************************)
(***************************************************************************)
(* Part F.  The field functions of sql_analyzer.py, on the text of the     *)
(* statement.  The regular expressions are matched as re matches them; the *)
(* fields returned are texts.  The statements are select * from t where    *)
(* C = 1 AND lower(C) = 1 OR C = 1, followed by nothing, a semicolon, an   *)
(* ORDER BY or a LIMIT; among the columns are from, a keyword, and name    *)
(* next to username.                                                       *)
(***************************************************************************)
\* The text made of the tokens, one blank between two tokens.
RECURSIVE TextOf(_)
TextOf(tokens) ==
  IF tokens = << >> THEN << >>
  ELSE IF Len(tokens) = 1 THEN Chars(tokens[1])
  ELSE Chars(tokens[1]) \o << " " >> \o TextOf(Tail(tokens))

\* str.count: occurrences that do not overlap, scanning from position i.
RECURSIVE CountFrom(_, _, _)
CountFrom(text, pat, i) ==
  IF i + Len(pat) - 1 > Len(text) THEN 0
  ELSE IF SubSeq(text, i, i + Len(pat) - 1) = pat
    THEN 1 + CountFrom(text, pat, i + Len(pat))
    ELSE CountFrom(text, pat, i + 1)

\* sql_analyzer.py:442-444, 447, 453, 459
PrimaryKeyNames == {Chars("id"), Chars("pk"), Chars("primary_key")}

TimeNames == {Chars("date"), Chars("time"), Chars("created"), Chars("updated"), Chars("timestamp")}

StatusNames == {Chars("status"), Chars("state"), Chars("type"), Chars("category")}

BusinessNames == {Chars("user"), Chars("name"), Chars("title"), Chars("code")}

\* sql_analyzer.py:437-470  the weight of one field
FieldWeight(field, sql_lower) ==
  LET field_lower == Lower(field)
  IN (IF field_lower \in PrimaryKeyNames THEN 100
      ELSE IF EndsWith(field_lower, Chars("_id")) THEN 90 ELSE 0)
     + (IF field_lower \in TimeNames THEN 80
        ELSE IF EndsWith(field_lower, Chars("_date")) \/ EndsWith(field_lower, Chars("_time"))
          THEN 70 ELSE 0)
     + (IF field_lower \in StatusNames THEN 60
        ELSE IF EndsWith(field_lower, Chars("_status")) \/ EndsWith(field_lower, Chars("_type"))
          THEN 50 ELSE 0)
     + (IF field_lower \in BusinessNames THEN 40 ELSE 0)
     + Len(field)
     + CountFrom(sql_lower, field_lower, 1) * 5

\* sorted(fields, key=weight, reverse=True): descending, fields of equal
\* weight keep the order they came in.
RECURSIVE SortedDescending(_, _, _)
SortedDescending(fields, field_weights, n) ==
  IF n = 0 THEN << >>
  ELSE LET prev == SortedDescending(fields, field_weights, n - 1)
           x    == fields[n]
           k    == Cardinality({i \in 1..Len(prev) : field_weights[prev[i]] >= field_weights[x]})
       IN SubSeq(prev, 1, k) \o << x >> \o SubSeq(prev, k + 1, Len(prev))

\* sql_analyzer.py:420-474
sort_fields_by_priority(fields, sql_lower) ==
  LET field_weights == [f \in Range(fields) |-> FieldWeight(f, sql_lower)]
  IN SortedDescending(fields, field_weights, Len(fields))

\* The fields a statement to sort is made of.
SortNames == {"id", "ID", "user_id", "created", "timestamp", "end_time", "status", "type", "name"}

\* Longest field list given to the sort.
MaxSortFields == 3

\* Lists of distinct fields.
DistinctSeqs(S, n) ==
  {q \in SeqsUpTo(S, n) : \A i, j \in 1..Len(q) : i # j => q[i] # q[j]}

\* select * from t where F1 = 1 and F2 = 1 .. [order by E], as tokens
RECURSIVE WhereTokens(_)
WhereTokens(fields) ==
  IF fields = << >> THEN << >>
  ELSE << fields[1], "=", "1" >>
         \o (IF Len(fields) > 1 THEN << "and" >> ELSE << >>)
         \o WhereTokens(Tail(fields))

SelectText(fields, ordered_by) ==
  TextOf(<< "select", "*", "from", "t", "where" >> \o WhereTokens(fields)
           \o (IF ordered_by # "none" THEN << "order", "by", ordered_by >> ELSE << >>))

\* re [a-zA-Z_]
NameStartChars == WordChars \ Digits

\* re [A-Za-z_]+  the last position of the letters and underscores that start at i
RECURSIVE NameEnd(_, _)
NameEnd(text, i) ==
  IF i <= Len(text) /\ text[i] \in NameStartChars THEN NameEnd(text, i + 1) ELSE i - 1

\* re [=<>!]+  the last position of the operator characters that start at i
RECURSIVE OperatorEnd(_, _)
OperatorEnd(text, i) ==
  IF i <= Len(text) /\ text[i] \in {"=", "<", ">", "!"} THEN OperatorEnd(text, i + 1) ELSE i - 1

\* re \b before the word character at position i
WordBegins(text, i) ==
  /\ i <= Len(text)
  /\ text[i] \in WordChars
  /\ (i = 1 \/ text[i - 1] \notin WordChars)

\* sql_analyzer.py:190  \b([A-Za-z_]+)\s*\(\s*([a-zA-Z_]\w*)\s*\) at position i:
\* the first and last position of the two groups and the position of the
\* closing bracket, << >> if there is no match.  No part that gives back a
\* character lets the rest match: the character given back is none that may
\* follow.
FunctionMatchAt(text, i) ==
  LET m == NameEnd(text, i)
      p == SkipSpace(text, m + 1)
      a == SkipSpace(text, p + 1)
      b == WordEnd(text, a)
      q == SkipSpace(text, b + 1)
  IN IF /\ WordBegins(text, i)
        /\ m >= i
        /\ p <= Len(text) /\ text[p] = "("
        /\ a <= Len(text) /\ text[a] \in NameStartChars
        /\ q <= Len(text) /\ text[q] = ")"
       THEN << i, m, a, b, q >>
       ELSE << >>

\* sql_analyzer.py:191  re.findall: the pairs (function name, argument), one
\* match after the other from position pos on.
RECURSIVE FunctionMatches(_, _)
FunctionMatches(text, pos) ==
  LET starts == {i \in pos..Len(text) : WordBegins(text, i) /\ FunctionMatchAt(text, i) # << >>}
  IN IF starts = {} THEN << >>
     ELSE LET at == FunctionMatchAt(text, Least(starts))
          IN << << SubSeq(text, at[1], at[2]), SubSeq(text, at[3], at[4]) >> >>
               \o FunctionMatches(text, at[5] + 1)

\* sql_analyzer.py:200  \b([a-zA-Z_]\w*)\s*[=<>!]+ at position i: the first
\* and last position of the name and the last position of the operator.
PlainMatchAt(text, i) ==
  LET m == WordEnd(text, i)
      p == SkipSpace(text, m + 1)
  IN IF /\ WordBegins(text, i)
        /\ text[i] \in NameStartChars
        /\ OperatorEnd(text, p) >= p
       THEN << i, m, OperatorEnd(text, p) >>
       ELSE << >>

\* sql_analyzer.py:201  re.findall: the names, one match after the other.
RECURSIVE PlainMatches(_, _)
PlainMatches(text, pos) ==
  LET starts == {i \in pos..Len(text) : WordBegins(text, i) /\ PlainMatchAt(text, i) # << >>}
  IN IF starts = {} THEN << >>
     ELSE LET at == PlainMatchAt(text, Least(starts))
          IN << SubSeq(text, at[1], at[2]) >> \o PlainMatches(text, at[3] + 1)

\* sql_analyzer.py:196
FunctionKeywords == Keywords({"select", "from", "where", "and", "or"})

\* sql_analyzer.py:206
ConditionKeywords ==
  Keywords({"select", "from", "where", "and", "or", "not", "in", "like", "between"})

\* sql_analyzer.py:193-197  FN(COL), the function name in capitals
RECURSIVE AddFunctionFields(_, _)
AddFunctionFields(fields, function_matches) ==
  IF function_matches = << >> THEN fields
  ELSE LET func_name  == Head(function_matches)[1]
           field_name == Head(function_matches)[2]
           func_field == Upper(func_name) \o << "(" >> \o field_name \o << ")" >>
       IN AddFunctionFields(IF Upper(func_field) \notin FunctionKeywords
                              THEN Append(fields, func_field) ELSE fields,
                            Tail(function_matches))

\* sql_analyzer.py:203-213  a name is kept unless it is a keyword or a
\* substring of a field already in the list.
RECURSIVE AddPlainFields(_, _)
AddPlainFields(fields, matches) ==
  IF matches = << >> THEN fields
  ELSE LET field == Head(matches)
           field_upper == Upper(field)
           is_in_function == \E k \in 1..Len(fields) : Contains(fields[k], field)
       IN AddPlainFields(IF field_upper \notin ConditionKeywords /\ ~is_in_function
                           THEN Append(fields, field) ELSE fields,
                         Tail(matches))

\* sql_analyzer.py:177-215
extract_fields_from_condition(condition) ==
  AddPlainFields(AddFunctionFields(<< >>, FunctionMatches(condition, 1)),
                 PlainMatches(condition, 1))

\* sql_analyzer.py:90-92
CleanSql(sql) ==
  LET stripped == Strip(sql)
  IN IF stripped # << >> /\ stripped[Len(stripped)] = ";"
       THEN Strip(SubSeq(stripped, 1, Len(stripped) - 1))
       ELSE stripped

\* (?:\s+ORDER\s+BY|\s+GROUP\s+BY|\s+LIMIT|$) at position p of the
\* lower-cased text
WhereEndsAt(text, p) ==
  \/ SpacedPairAt(text, p, Chars("order"), Chars("by"))
  \/ SpacedPairAt(text, p, Chars("group"), Chars("by"))
  \/ SpacedAt(text, p, Chars("limit"))
  \/ AtEnd(text, p)

\* sql_analyzer.py:95  \bWHERE\s+(.+?)(?:...) at position i of the
\* lower-cased text, any character in the group (DOTALL): the first and last
\* position of the group, << >> if there is no match.  The white space
\* after WHERE is taken whole, and gives one character back when the text
\* ends with it.
WhereMatchAt(text, i) ==
  LET h == i + 5
      g == Min(SkipSpace(text, h), Len(text))
  IN IF WordAt(text, i, Chars("where")) /\ g > h
       THEN << g, Least({e \in g..Len(text) : WhereEndsAt(text, e + 1)}) >>
       ELSE << >>

\* sql_analyzer.py:95-99  re.search with IGNORECASE, group(1).strip(); the
\* statement has a WHERE clause or not
WhereClause(sql_clean) ==
  LET text   == Lower(sql_clean)
      starts == {i \in 1..Len(text) : WhereMatchAt(text, i) # << >>}
  IN IF starts = {} THEN [found |-> FALSE, clause |-> << >>]
     ELSE LET at == WhereMatchAt(text, Least(starts))
          IN [found |-> TRUE, clause |-> Strip(SubSeq(sql_clean, at[1], at[2]))]

\* sql_analyzer.py:106  re.split(r'\bOR\b', where_clause, flags=re.IGNORECASE)
RECURSIVE SplitOnOr(_)
SplitOnOr(where_clause) ==
  LET text == Lower(where_clause)
      hits == {i \in 1..Len(text) : WordAt(text, i, Chars("or"))}
  IN IF hits = {} THEN << where_clause >>
     ELSE << SubSeq(where_clause, 1, Least(hits) - 1) >>
            \o SplitOnOr(SubSeq(where_clause, Least(hits) + 2, Len(where_clause)))

\* sql_analyzer.py:137-148  the fields not seen before, in order
RECURSIVE UniqueFields(_, _)
UniqueFields(fields, seen) ==
  IF fields = << >> THEN << >>
  ELSE IF Head(fields) \in seen THEN UniqueFields(Tail(fields), seen)
  ELSE << Head(fields) >> \o UniqueFields(Tail(fields), seen \cup {Head(fields)})

\* sql_analyzer.py:108-131  the fields of several parts, each part stripped,
\* one part after the other.
RECURSIVE FieldsOfParts(_)
FieldsOfParts(parts) ==
  IF parts = << >> THEN << >>
  ELSE extract_fields_from_condition(Strip(Head(parts))) \o FieldsOfParts(Tail(parts))

\* sql_analyzer.py:155-169  the field named f, if present, before the others
PrioritizedOrFields(unique_or_fields) ==
  LET is_f(x) == x = << "f" >>
      not_f(x) == x # << "f" >>
  IN (IF \E k \in 1..Len(unique_or_fields) : is_f(unique_or_fields[k])
        THEN << << "f" >> >> ELSE << >>)
       \o SelectSeq(unique_or_fields, not_f)

\* sql_analyzer.py:76-174
extract_where_fields(sql) ==
  LET sql_clean   == CleanSql(sql)
      where_match == WhereClause(sql_clean)
      or_parts    == SplitOnOr(where_match.clause)
      and_fields  == FieldsOfParts(<< or_parts[1] >>)
      or_fields   == FieldsOfParts(Tail(or_parts))
      unique_and_fields == UniqueFields(and_fields, {})
      unique_or_fields  == UniqueFields(or_fields, Range(unique_and_fields))
  IN IF sql = << >> \/ ~where_match.found THEN << >>
     ELSE IF Len(unique_and_fields) >= 5 THEN Take(unique_and_fields, 5)
     ELSE unique_and_fields
            \o Take(PrioritizedOrFields(unique_or_fields), 5 - Len(unique_and_fields))

\* Most parts after the first one.
MaxOrParts == 2

Bare(cols) == [i \in 1..Len(cols) |-> [col |-> cols[i], fn |-> "none"]]

\* The part before the first OR: one or two conditions, a column possibly
\* wrapped or named from, or a list of three to six bare columns, a column
\* possibly twice, or name next to lower(username).
AndParts ==
  {q \in SeqsUpTo([col : {"a", "b", "f", "from"}, fn : {"none"}] \cup {[col |-> "b", fn |-> "lower"]}, 2) :
     Len(q) >= 1}
    \cup { Bare(<< "a", "b", "c" >>), Bare(<< "a", "b", "c", "d" >>),
           Bare(<< "a", "b", "c", "d", "e" >>), Bare(<< "a", "b", "c", "d", "e", "h" >>),
           Bare(<< "a", "a", "b", "c", "d", "e" >>),
           << [col |-> "name", fn |-> "none"], [col |-> "username", fn |-> "lower"] >> }

\* A part after an OR: one or two bare columns.
OrParts == {q \in SeqsUpTo([col : {"a", "f", "g"}, fn : {"none"}], 2) : Len(q) >= 1}

WhereClauses ==
  {<< first >> \o rest : first \in AndParts, rest \in SeqsUpTo(OrParts, MaxOrParts)}

\* Conditions in which the name of one column is part of the name of
\* another, or is a keyword.
NestedNameParts ==
  {q \in SeqsUpTo([col : {"name", "username", "id", "from"}, fn : {"none", "lower"}], 2) :
     Len(q) >= 1}

\* COL = 1, fn(COL) = 1
ConditionOf(c) ==
  (IF c.fn = "none" THEN Chars(c.col)
   ELSE Chars(c.fn) \o << "(" >> \o Chars(c.col) \o << ")" >>) \o << " ", "=", " ", "1" >>

\* The conditions of a part, AND between two of them.
RECURSIVE PartText(_)
PartText(part) ==
  IF part = << >> THEN << >>
  ELSE IF Len(part) = 1 THEN ConditionOf(part[1])
  ELSE ConditionOf(part[1]) \o << " ", "A", "N", "D", " " >> \o PartText(Tail(part))

\* The parts of a WHERE clause, OR between two of them.
RECURSIVE ClauseText(_)
ClauseText(or_parts) ==
  IF or_parts = << >> THEN << >>
  ELSE IF Len(or_parts) = 1 THEN PartText(or_parts[1])
  ELSE PartText(or_parts[1]) \o << " ", "O", "R", " " >> \o ClauseText(Tail(or_parts))

\* What follows the WHERE clause in a statement.
Endings ==
  [ none      |-> << >>,
    semicolon |-> << ";", " " >>,
    order     |-> << " " >> \o TextOf(<< "order", "by", "a" >>),
    limit     |-> << "\n" >> \o TextOf(<< "limit", "1" >>) ]

\* select * from t where <clause><ending>
WhereSql(or_parts, ending) ==
  TextOf(<< "select", "*", "from", "t", "where" >>) \o << " " >> \o ClauseText(or_parts)
    \o Endings[ending]

VARIABLES
  fcall,   \* the function called and its arguments
  fpc,     \* "call" before the function ran, "done" after
  fout     \* the list the function returned

analyzerVars == << fcall, fpc, fout >>

SortCalls ==
  [ fn : {"sort_fields_by_priority"},
    fields : {q \in DistinctSeqs(SortNames, MaxSortFields) : Len(q) >= 2},
    ordered_by : SortNames \cup {"none"}, where : {<< >>}, ending : {"none"} ]

\* Every clause ends the statement; a clause with at most one OR is also
\* followed by each of the other endings.
WhereCalls ==
  {c \in [ fn : {"extract_where_fields"}, fields : {<< >>}, ordered_by : {"none"},
           where : WhereClauses, ending : DOMAIN Endings ] :
     c.ending # "none" => Len(c.where) <= 2}

ConditionCalls ==
  [ fn : {"extract_fields_from_condition"}, fields : {<< >>}, ordered_by : {"none"},
    where : {<< part >> : part \in NestedNameParts}, ending : {"none"} ]

NoFieldCall ==
  [fn |-> "none", fields |-> << >>, ordered_by |-> "none", where |-> << >>, ending |-> "none"]

QuietAnalyzer ==
  /\ fcall = NoFieldCall
  /\ fpc = "call"
  /\ fout = << >>

InitAnalyzer ==
  /\ fcall \in SortCalls \cup WhereCalls \cup ConditionCalls
  /\ fpc = "call"
  /\ fout = << >>

\* SQLAnalyzer.sort_fields_by_priority, called with the fields and the
\* lower-cased statement
SortFields ==
  /\ fpc = "call"
  /\ fcall.fn = "sort_fields_by_priority"
  /\ fout' = sort_fields_by_priority(Spelled(fcall.fields),
                                     Lower(SelectText(fcall.fields, fcall.ordered_by)))
  /\ fpc' = "done"
  /\ UNCHANGED fcall

(***************************************************************************)
(* Part G.  DatabaseHelper.find_correct_database_for_table, query by       *)
(* query.  The server lists its databases in some order; for each database *)
(* the existence check answers "yes" (count > 0), "no" (count 0) or        *)
(* "error" (execute_safe_query returned status error).                     *)
(***************************************************************************)
\* database_helper.py:386-389
excluded_dbs ==
  { "information_schema", "c2c_db", "mysql", "performance_schema", "sys" }
    \cup {
      "trans_00", "trans_01", "trans_02", "trans_03", "trans_04",
      "trans_05", "trans_06", "trans_07", "trans_08", "trans_09",
      "trans_10", "trans_11", "trans_12", "trans_13", "trans_14",
      "trans_15", "trans_16", "trans_17", "trans_18", "trans_19",
      "trans_20", "trans_21", "trans_22", "trans_23", "trans_24",
      "trans_25", "trans_26", "trans_27", "trans_28", "trans_29",
      "trans_30", "trans_31", "trans_32", "trans_33", "trans_34" }

\* Databases a server may list: two that are excluded, three that are not.
ListedNames == {"mysql", "trans_07", "app", "shop", "crm"}

\* Longest database listing.
MaxListed == 3

\* No call issues more queries than this.
MaxIssued == 6

\* database_helper.py:402  candidate_dbs, in listing order
candidate_dbs(all_dbs) ==
  LET kept(db) == db \notin excluded_dbs
  IN SelectSeq(all_dbs, kept)

NextCandidate_retry(i, answered) == IF answered = "error" THEN i ELSE i + 1

\* database_helper.py:405-416  the loop moves on to the next candidate
\* whatever the check answered.
NextCandidate(i, answered) == i + 1

VARIABLES
  server,     \* what the server holds: the listing, whether it can be listed, the answers
  lpc,        \* "start", "loop", "returned"
  candidates, \* candidate_dbs
  lidx,       \* position of the loop in candidate_dbs
  issued,     \* the queries issued so far, in order
  lret        \* the value returned

lookupVars == << server, lpc, candidates, lidx, issued, lret >>

Servers ==
  [ table_given : BOOLEAN,
    listing     : DistinctSeqs(ListedNames, MaxListed),
    listable    : BOOLEAN,
    answers     : [ListedNames \ excluded_dbs -> {"yes", "no", "error"}] ]

NoServer ==
  [ table_given |-> FALSE, listing |-> << >>, listable |-> FALSE,
    answers |-> [db \in ListedNames \ excluded_dbs |-> "no"] ]

QuietLookup ==
  /\ server = NoServer
  /\ lpc = "returned"
  /\ candidates = << >>
  /\ lidx = 1
  /\ issued = << >>
  /\ lret = ""

InitLookup ==
  /\ server \in Servers
  /\ lpc = "start"
  /\ candidates = << >>
  /\ lidx = 1
  /\ issued = << >>
  /\ lret = ""

\* database_helper.py:383-402  no table name: return ""; else SHOW DATABASES,
\* return "" when it fails or lists nothing, else build candidate_dbs.
ListDatabases ==
  /\ lpc = "start"
  /\ IF ~server.table_given
       THEN /\ lpc' = "returned"
            /\ UNCHANGED << candidates, issued >>
       ELSE /\ issued' = Append(issued, [q |-> "show_databases", db |-> ""])
            /\ IF ~server.listable \/ server.listing = << >>
                 THEN /\ lpc' = "returned"
                      /\ UNCHANGED candidates
                 ELSE /\ candidates' = candidate_dbs(server.listing)
                      /\ lpc' = "loop"
  /\ lret' = ""
  /\ UNCHANGED << server, lidx >>

\* database_helper.py:405-416  one existence check for the current candidate
CheckCandidate ==
  /\ lpc = "loop"
  /\ lidx <= Len(candidates)
  /\ Len(issued) < MaxIssued
  /\ issued' = Append(issued, [q |-> "table_exists", db |-> candidates[lidx]])
  /\ IF server.answers[candidates[lidx]] = "yes"
       THEN /\ lret' = candidates[lidx]
            /\ lpc' = "returned"
            /\ UNCHANGED lidx
       ELSE /\ lidx' = NextCandidate(lidx, server.answers[candidates[lidx]])
            /\ UNCHANGED << lret, lpc >>
  /\ UNCHANGED << server, candidates >>

\* database_helper.py:417-418  no candidate holds the table
NotFound ==
  /\ lpc = "loop"
  /\ lidx > Len(candidates)
  /\ lret' = ""
  /\ lpc' = "returned"
  /\ UNCHANGED << server, candidates, lidx, issued >>

vars ==
  << connVars, batchVars, advisoryVars, composeVars, estimateVars, analyzerVars, lookupVars >>

QuietConn ==
  /\ cls = "DatabaseHelper"
  /\ pc = "idle"
  /\ op = "none"
  /\ query = "none"
  /\ conn = "none"
  /\ registered = FALSE
  /\ topo = "none"
  /\ chk = "none"
  /\ rc = "none"
  /\ orphans = 0
  /\ standby = FALSE
  /\ acquired = FALSE
  /\ result = "none"
  /\ session = "none"
  /\ lq = NoQuery
  /\ lc = NoConnect

QuietBatch ==
  /\ slow_queries = << >>
  /\ bpc = "start"
  /\ bidx = 1
  /\ analysed = {}
  /\ results = << >>
  /\ success_count = 0
  /\ summary = NoSummary
  /\ breturn = "none"

Init == InitConn /\ QuietBatch /\ QuietAdvisory /\ QuietCompose /\ QuietEstimate /\ QuietAnalyzer
    /\ QuietLookup

Next ==
  \/ CallGetSafeConnection /\ UNCHANGED << batchVars, advisoryVars, composeVars, estimateVars, analyzerVars, lookupVars >>
  \/ CallExecuteSafeQuery /\ UNCHANGED << batchVars, advisoryVars, composeVars, estimateVars, analyzerVars, lookupVars >>
  \/ CallCloseSafeConnection /\ UNCHANGED << batchVars, advisoryVars, composeVars, estimateVars, analyzerVars, lookupVars >>
  \/ CallGetTableRowCount /\ UNCHANGED << batchVars, advisoryVars, composeVars, estimateVars, analyzerVars, lookupVars >>
  \/ CallGetTableIndexesFromDb /\ UNCHANGED << batchVars, advisoryVars, composeVars, estimateVars, analyzerVars, lookupVars >>
  \/ StandbyConnect /\ UNCHANGED << batchVars, advisoryVars, composeVars, estimateVars, analyzerVars, lookupVars >>
  \/ StandbyQuery /\ UNCHANGED << batchVars, advisoryVars, composeVars, estimateVars, analyzerVars, lookupVars >>
  \/ CheckActive /\ UNCHANGED << batchVars, advisoryVars, composeVars, estimateVars, analyzerVars, lookupVars >>
  \/ PrecheckConnect /\ UNCHANGED << batchVars, advisoryVars, composeVars, estimateVars, analyzerVars, lookupVars >>
  \/ Precheck /\ UNCHANGED << batchVars, advisoryVars, composeVars, estimateVars, analyzerVars, lookupVars >>
  \/ SessionSetup /\ UNCHANGED << batchVars, advisoryVars, composeVars, estimateVars, analyzerVars, lookupVars >>
  \/ ExecQuery /\ UNCHANGED << batchVars, advisoryVars, composeVars, estimateVars, analyzerVars, lookupVars >>
  \/ ExecFinally /\ UNCHANGED << batchVars, advisoryVars, composeVars, estimateVars, analyzerVars, lookupVars >>
  \/ RowCountQuery /\ UNCHANGED << batchVars, advisoryVars, composeVars, estimateVars, analyzerVars, lookupVars >>
  \/ Finalize /\ UNCHANGED << batchVars, advisoryVars, composeVars, estimateVars, analyzerVars, lookupVars >>

Spec == Init /\ [][Next]_vars

BatchInit == QuietConn /\ InitBatch /\ QuietAdvisory /\ QuietCompose /\ QuietEstimate /\ QuietAnalyzer
    /\ QuietLookup

BatchNext ==
  \/ GetSlowQueries /\ UNCHANGED << connVars, advisoryVars, composeVars, estimateVars, analyzerVars, lookupVars >>
  \/ AnalyzeOne /\ UNCHANGED << connVars, advisoryVars, composeVars, estimateVars, analyzerVars, lookupVars >>
  \/ BuildSummary /\ UNCHANGED << connVars, advisoryVars, composeVars, estimateVars, analyzerVars, lookupVars >>
  \/ SaveSummary /\ UNCHANGED << connVars, advisoryVars, composeVars, estimateVars, analyzerVars, lookupVars >>

BatchSpec == BatchInit /\ [][BatchNext]_vars

AdvisoryInit == QuietConn /\ QuietBatch /\ InitAdvisory /\ QuietCompose /\ QuietEstimate /\ QuietAnalyzer
    /\ QuietLookup

AdvisoryNext ==
  \/ ReportAnalyze /\ UNCHANGED << connVars, batchVars, composeVars, estimateVars, analyzerVars, lookupVars >>
  \/ CoreAnalyze /\ UNCHANGED << connVars, batchVars, composeVars, estimateVars, analyzerVars, lookupVars >>
  \/ CheckIndexes /\ UNCHANGED << connVars, batchVars, composeVars, estimateVars, analyzerVars, lookupVars >>
  \/ GetTableIndexes /\ UNCHANGED << connVars, batchVars, composeVars, estimateVars, analyzerVars, lookupVars >>
  \/ LocateTable /\ UNCHANGED << connVars, batchVars, composeVars, estimateVars, analyzerVars, lookupVars >>
  \/ LabelDatabase /\ UNCHANGED << connVars, batchVars, composeVars, estimateVars, analyzerVars, lookupVars >>

AdvisorySpec == AdvisoryInit /\ [][AdvisoryNext]_vars

ComposeInit == QuietConn /\ QuietBatch /\ QuietAdvisory /\ InitCompose /\ QuietEstimate /\ QuietAnalyzer
    /\ QuietLookup

ComposeNext ==
  \/ \E r \in Runs : ExtractFields(r) /\ UNCHANGED << connVars, batchVars, advisoryVars, estimateVars, analyzerVars, lookupVars >>
  \/ \E r \in Runs : ComposeStatements(r) /\ UNCHANGED << connVars, batchVars, advisoryVars, estimateVars, analyzerVars, lookupVars >>
  \/ \E r \in Runs : ComposeReport(r) /\ UNCHANGED << connVars, batchVars, advisoryVars, estimateVars, analyzerVars, lookupVars >>

ComposeSpec == ComposeInit /\ [][ComposeNext]_vars

EstimateInit == QuietConn /\ QuietBatch /\ QuietAdvisory /\ QuietCompose /\ InitEstimate /\ QuietAnalyzer
    /\ QuietLookup

EstimateNext ==
  \/ GeneratorEstimate /\ UNCHANGED << connVars, batchVars, advisoryVars, composeVars, analyzerVars, lookupVars >>
  \/ AnalyzerEstimate /\ UNCHANGED << connVars, batchVars, advisoryVars, composeVars, analyzerVars, lookupVars >>

EstimateSpec == EstimateInit /\ [][EstimateNext]_vars

\* SQLAnalyzer.extract_where_fields
ExtractWhereFields ==
  /\ fpc = "call"
  /\ fcall.fn = "extract_where_fields"
  /\ fout' = extract_where_fields(WhereSql(fcall.where, fcall.ending))
  /\ fpc' = "done"
  /\ UNCHANGED fcall

\* SQLAnalyzer.extract_fields_from_condition
ExtractFieldsFromCondition ==
  /\ fpc = "call"
  /\ fcall.fn = "extract_fields_from_condition"
  /\ fout' = extract_fields_from_condition(PartText(fcall.where[1]))
  /\ fpc' = "done"
  /\ UNCHANGED fcall

AnalyzerInit ==
  QuietConn /\ QuietBatch /\ QuietAdvisory /\ QuietCompose /\ QuietEstimate /\ InitAnalyzer
    /\ QuietLookup

AnalyzerNext ==
  \/ SortFields
       /\ UNCHANGED << connVars, batchVars, advisoryVars, composeVars, estimateVars, lookupVars >>
  \/ ExtractWhereFields
       /\ UNCHANGED << connVars, batchVars, advisoryVars, composeVars, estimateVars, lookupVars >>
  \/ ExtractFieldsFromCondition
       /\ UNCHANGED << connVars, batchVars, advisoryVars, composeVars, estimateVars, lookupVars >>

AnalyzerSpec == AnalyzerInit /\ [][AnalyzerNext]_vars

LookupInit ==
  QuietConn /\ QuietBatch /\ QuietAdvisory /\ QuietCompose /\ QuietEstimate /\ QuietAnalyzer
    /\ InitLookup

otherVars == << connVars, batchVars, advisoryVars, composeVars, estimateVars, analyzerVars >>

LookupNext ==
  \/ ListDatabases /\ UNCHANGED otherVars
  \/ CheckCandidate /\ UNCHANGED otherVars
  \/ NotFound /\ UNCHANGED otherVars

\* The call runs to its end: a step that can be taken is taken.
LookupSpec == LookupInit /\ [][LookupNext]_vars /\ WF_vars(LookupNext)

(***************************************************************************)
(* Claims.                                                                 *)
(***************************************************************************)
\* C1: across any sequence of connection-helper operations at most one
\* outbound connection (topology lookup, pre-check and working connection
\* counted) is open at the same moment.
C1_SingleActiveConnection == OpenCount <= 1

\* C2: when execute_safe_query returns after having acquired a connection,
\* that connection has been closed and no active connection is registered.
C2_ReleasedOnReturn ==
  (pc = "idle" /\ op = "execute_safe_query" /\ acquired)
    => (~registered /\ conn # "open")

NumberOf(seq, P(_)) == Cardinality({i \in 1..Len(seq) : P(seq[i])})

Failed(outcome) == ~(outcome = "ok")

\* C4: once the summary is built, every statement of the batch has been
\* analysed (a failed one did not stop the loop) and is counted exactly once:
\* the success count is the number of statements whose analysis succeeded,
\* the failed count the number of the others, and both add up to the total.
C4_IsolateAndContinue ==
  summary # NoSummary =>
    /\ analysed = 1..Len(slow_queries)
    /\ summary.total_queries = Len(slow_queries)
    /\ summary.successful_analyses = NumberOf(slow_queries, CountsAsSuccess)
    /\ summary.failed_analyses = NumberOf(slow_queries, Failed)
    /\ summary.successful_analyses + summary.failed_analyses = summary.total_queries
    /\ Len(summary.results) = summary.successful_analyses

\* A summary was built for a batch whose first statement raised or yielded
\* nothing and was followed by a statement that succeeded.
C4_Witness ==
  /\ summary # NoSummary
  /\ Len(slow_queries) >= 2
  /\ slow_queries[1] \in {"none", "raises"}
  /\ slow_queries[2] = "ok"
  /\ 2 \in analysed

\* The advisory call has returned for a statement that is not empty.
Advised ==
  /\ apc = "done"
  /\ call.entry \in {"report", "core"}
  /\ call.sql.text # "empty"

\* C3: for every non-empty statement and every metadata state the advisory
\* entry point returns a text, and neither it nor the index check it relies
\* on lets an exception escape.
C3_NoExceptionEscapes ==
  /\ Advised => advice.kind = "text"
  /\ (apc = "done" /\ call.entry = "check_indexes") => verdict # "exception"

UncertaintyMarkers == {"insufficient_information", "index_info_unavailable"}

\* C5: when the index metadata is unknown, the diagnosis of the returned
\* text carries an uncertainty marker and does not present the statement as
\* being in good shape already.
C5_UnknownMetadataIsMarked ==
  (Advised /\ call.meta.kind = "absent") =>
    /\ advice.kind = "text"
    /\ Range(advice.diagnosis) \cap UncertaintyMarkers # {}
    /\ "well_structured" \notin Range(advice.diagnosis)

\* C6: metadata that could not be retrieved is never taken for "no index":
\* from an unknown profile the coverage is neither fully covered nor not
\* covered, and the index lookup keeps the unknown state apart from the
\* empty set.
C6_UnknownIsIndeterminate ==
  /\ (apc = "done" /\ analysis.ran /\ call.meta.kind = "absent")
       => analysis.index_coverage \notin {"fully_covered", "not_covered"}
  /\ (apc = "done" /\ call.entry = "get_table_indexes"
        /\ call.database_given /\ call.live.kind # "indexes")
       => ~indexes_out.known

\* The column is written inside a function call somewhere in the statement.
AppearsInFunctionCall(sql, f) ==
  \E i \in 1..Len(sql.conds) :
    sql.conds[i].fn # "none" /\ Lower(Chars(sql.conds[i].col)) = Lower(f)

\* C7: a column written inside a function call in the statement is never a
\* column of a recommended index statement.
C7_NoIndexOnWrappedField ==
  Advised =>
    \A k \in 1..Len(advice.statements) :
      \A f \in Range(advice.statements[k].columns) :
        ~AppearsInFunctionCall(call.sql, f)

\* The fields given to the index check, lower-cased.
CheckedFields ==
  {Lower(Chars(f)) :
     f \in Range(call.where_fields \o call.join_fields \o call.order_by_fields)}

\* C8: when every field of the field set is in the existing indexed set
\* (without regard to case), the evaluation does not answer that the set is
\* not covered: the coverage of the generator is not "not_covered", and the
\* index check, given the indexes of the live table, does not return False.
C8_AllIndexedIsNotUncovered ==
  /\ (apc = "done" /\ analysis.ran
        /\ Range(analysis.where_fields \o analysis.join_fields) \subseteq analysis.existing_indexes)
       => analysis.index_coverage # "not_covered"
  /\ (apc = "done" /\ call.entry = "check_indexes"
        /\ call.database_given /\ call.live.kind = "indexes"
        /\ CheckedFields # {}
        /\ CheckedFields \subseteq LiveIndexedFields(call.live))
       => verdict # "false"

\* C9: two runs over the same statement and the same index profile return
\* the same statements in the same order.
C9_SameStatementsEveryRun ==
  (\A r \in Runs : cpc[r] = "done") => composed[1] = composed[2]

\* C10: when no WHERE field and no JOIN field is extracted from a non-empty
\* statement, the text returned has the missing-filter diagnosis, advises
\* adding a filter condition and holds no index statement, whatever the
\* metadata.
C10_NoFilterNoDdl ==
  ( /\ Advised
    /\ where_fields(Lower(SqlText(call.sql))) = << >>
    /\ join_fields(Lower(SqlText(call.sql))) = << >> ) =>
    /\ advice.kind = "text"
    /\ "missing_filters" \in Range(advice.diagnosis)
    /\ "add_filter_condition" \in Range(advice.bullets)
    /\ advice.statements = << >>

\* The call analysed a statement whose only filter is one bare WHERE column,
\* that column is in the snapshot's indexes, and the snapshot has a row count.
SinglePredicateIndexed ==
  /\ Advised
  /\ call.sql.join = "none"
  /\ Len(call.sql.conds) = 1
  /\ call.sql.conds[1].fn = "none"
  /\ call.sql.tail # "end"
  /\ call.meta.kind = "snapshot"
  /\ Lower(Chars(call.sql.conds[1].col)) \in existing_indexes(call.meta)
  /\ call.meta.row_count # << >>

\* C11: for a single-predicate statement whose field is indexed, the text
\* advises archiving historical data and does not report the optimal state
\* when the row count is above 4,000,000, and reports the optimal state when
\* the row count is known and at most 4,000,000.
C11_ArchiveAboveFourMillion ==
  SinglePredicateIndexed =>
    /\ advice.kind = "text"
    /\ IF call.meta.row_count[1] > HistoryCleanupRows
         THEN /\ "archive_history" \in Range(advice.bullets) \cup Range(advice.diagnosis)
              /\ "well_structured" \notin Range(advice.diagnosis)
         ELSE "well_structured" \in Range(advice.diagnosis)

\* The columns id and name, as their characters.
ColumnChars == {Chars(c) : c \in Columns}

\* C12: for a statement with two or more WHERE fields of which at least one
\* is not indexed, ordered by a field that is not indexed, the text holds
\* exactly one index statement, a composite one over the WHERE fields and the
\* ORDER BY field with the id field first.
C12_OneCompositeWithOrderBy ==
  ( /\ Advised
    /\ call.meta.kind = "snapshot"
    /\ call.sql.join = "none"
    /\ call.sql.order \in OrderColumns
    /\ Len(call.sql.conds) = 2
    /\ \A i \in 1..2 : call.sql.conds[i].fn = "none"
    /\ {call.sql.conds[1].col, call.sql.conds[2].col} = Columns
    /\ ~(ColumnChars \subseteq existing_indexes(call.meta)) )
  =>
    /\ advice.kind = "text"
    /\ Len(advice.statements) = 1
    /\ Range(advice.statements[1].columns) = ColumnChars \cup {Chars(call.sql.order)}
    /\ advice.statements[1].columns[1] = Chars("id")

\* C13: a connection or permission failure while retrieving metadata leaves
\* the verdict indeterminate, and the text states the uncertainty and asks to
\* verify the indexes by hand; 'table not found' is reported only when the
\* database answered and the table is in no candidate database.
C13_FailureIsNotTableNotFound ==
  /\ (apc = "done" /\ call.entry = "database_label" /\ located.label = TableNotFoundLabel)
       => call.live.kind = "table_missing"
  /\ (Advised /\ call.meta.kind = "absent" /\ call.live.kind = "unreachable")
       => /\ advice.kind = "text"
          /\ Range(advice.diagnosis) \cap UncertaintyMarkers # {}
          /\ "confirm_indexes" \in Range(advice.bullets)

\* C14: whatever the estimator inputs, the predicted improvement range lies
\* in [50, 95]: 50 <= min_pct <= max_pct <= 95.
C14_RangeClamped ==
  (epc = "done" /\ erange # << >>) =>
    /\ 50 <= erange[1]
    /\ erange[1] <= erange[2]
    /\ erange[2] <= 95

\* C15: every statement run for a caller ran on a session on which
\* sql_safe_updates and sql_select_limit had been set, over a connection opened
\* with the connect timeout of 5 seconds.
C15_EveryQueryScoped ==
  lq.via # "none" => (lq.scoped /\ lq.connect_timeout = ConnectTimeout)

\* C16: a connection for statements is opened after the topology lookup, to
\* the replica when the lookup found one and to the given host only when it
\* found none.
C16_ReplicaPreferred ==
  lc.host # "none" =>
    /\ lc.resolved
    /\ lc.host = (IF lc.replica_found THEN "replica" ELSE "given")

\* The fields the statement filters on: the columns of its WHERE conditions
\* and the column of its JOIN condition.
FilterFields(sql) ==
  {Lower(Chars(sql.conds[i].col)) : i \in 1..Len(sql.conds)}
    \cup (IF sql.join # "none" THEN {Lower(Chars(sql.join))} ELSE {})

\* The filter fields of the call that are neither in the snapshot's indexes
\* nor written inside a function call.
UncoveredFields ==
  {f \in FilterFields(call.sql) :
     f \notin existing_indexes(call.meta) /\ ~AppearsInFunctionCall(call.sql, f)}

\* C17: when exactly one filter field of the statement is uncovered, the text
\* holds one index statement, a single-column one on that field.
C17_SingleColumnForOneUncovered ==
  (Advised /\ call.meta.kind = "snapshot" /\ Cardinality(UncoveredFields) = 1) =>
    /\ advice.kind = "text"
    /\ Len(advice.statements) = 1
    /\ Range(advice.statements[1].columns) = UncoveredFields
    /\ Len(advice.statements[1].columns) = 1

\* C18: when two or more filter fields of the statement are uncovered, the
\* text holds one index statement, a composite one over uncovered fields with
\* at most 5 columns (all the uncovered fields when there are at most 5).
C18_OneCompositeAtMostFive ==
  (Advised /\ call.meta.kind = "snapshot" /\ Cardinality(UncoveredFields) >= 2) =>
    /\ advice.kind = "text"
    /\ Len(advice.statements) = 1
    /\ Len(advice.statements[1].columns) >= 2
    /\ Len(advice.statements[1].columns) <= 5
    /\ Range(advice.statements[1].columns) \subseteq UncoveredFields
    /\ Cardinality(UncoveredFields) <= 5
         => Range(advice.statements[1].columns) = UncoveredFields

\* The statement of the call compares both columns, bare, in its WHERE clause
\* and has no JOIN.
TwoBareWhereFields ==
  /\ call.sql.join = "none"
  /\ Len(call.sql.conds) = 2
  /\ \A i \in 1..2 : call.sql.conds[i].fn = "none"
  /\ {call.sql.conds[1].col, call.sql.conds[2].col} = Columns

\* C19: when the WHERE clause uses more than one field and each of them is
\* individually indexed, the index check answers that an index is still to
\* be created, and the text holds a composite index statement over those
\* fields.
C19_CompositeThoughAllIndexed ==
  /\ (apc = "done" /\ call.entry = "check_indexes"
        /\ Range(call.where_fields) = Columns
        /\ call.join_fields = << >> /\ call.order_by_fields = << >>
        /\ call.database_given /\ call.live.kind = "indexes"
        /\ ColumnChars \subseteq LiveIndexedFields(call.live))
       => verdict = "false"
  /\ (Advised /\ TwoBareWhereFields /\ call.meta.kind = "snapshot"
        /\ ColumnChars \subseteq existing_indexes(call.meta))
       => /\ advice.kind = "text"
          /\ \E k \in 1..Len(advice.statements) :
               /\ Range(advice.statements[k].columns) = ColumnChars
               /\ Len(advice.statements[k].columns) = 2

\* The WHERE columns of the call's statement that are written bare, nowhere
\* inside a function call, and are not in the snapshot's indexes.
BareUnindexedFields ==
  {f \in {Lower(Chars(call.sql.conds[i].col)) : i \in 1..Len(call.sql.conds)} :
     f \notin existing_indexes(call.meta) /\ ~AppearsInFunctionCall(call.sql, f)}

\* C20: when the WHERE clause holds a function-wrapped field next to bare
\* fields that are not indexed, the text holds an index statement (single
\* column or composite) over those bare fields.
C20_BareFieldsStillIndexed ==
  ( /\ Advised
    /\ call.meta.kind = "snapshot"
    /\ \E i \in 1..Len(call.sql.conds) : call.sql.conds[i].fn # "none"
    /\ BareUnindexedFields # {} )
  =>
    /\ advice.kind = "text"
    /\ \E k \in 1..Len(advice.statements) :
         BareUnindexedFields \subseteq Range(advice.statements[k].columns)

\* The WHERE clause of the call's statement holds a function-wrapped field
\* and a bare one.
WrappedAndBare ==
  /\ \E i \in 1..Len(call.sql.conds) : Chars(call.sql.conds[i].fn) \in Range(function_names)
  /\ \E i \in 1..Len(call.sql.conds) : call.sql.conds[i].fn = "none"

\* C21: when the WHERE clause holds both function-wrapped and bare fields,
\* every index statement of the text comes after a rewrite recommendation.
C21_RewriteBeforeIndex ==
  (Advised /\ call.meta.kind = "snapshot" /\ WrappedAndBare) =>
    \A k \in 1..Len(SuggestionSection(advice)) :
      SuggestionSection(advice)[k] = "index_statement"
        => \E j \in 1..(k - 1) : SuggestionSection(advice)[j] = "rewrite_function"

\* The class of a field name in the heading of the priority heuristic:
\* 1 primary-key-like, 2 time or date, 3 status or type, 4 any other.
\* Capitals and small letters are the same name.
FieldClass(f) ==
  IF Lower(f) \in PrimaryKeyNames \/ EndsWith(Lower(f), Chars("_id")) THEN 1
  ELSE IF Lower(f) \in TimeNames
          \/ EndsWith(Lower(f), Chars("_date")) \/ EndsWith(Lower(f), Chars("_time")) THEN 2
  ELSE IF Lower(f) \in StatusNames
          \/ EndsWith(Lower(f), Chars("_status")) \/ EndsWith(Lower(f), Chars("_type")) THEN 3
  ELSE 4

\* How often the field occurs in the text of the statement that was sorted,
\* in capitals or small letters.
Frequency(f) ==
  CountFrom(Lower(SelectText(fcall.fields, fcall.ordered_by)), Lower(f), 1)

\* C22: in the sorted list every primary-key-like field precedes every time
\* field and every time field precedes every status field; of two fields of
\* the same class the one occurring more often comes first and, at equal
\* frequency, the shorter name comes first.
C22_PriorityOrder ==
  (fpc = "done" /\ fcall.fn = "sort_fields_by_priority") =>
    \A i, j \in 1..Len(fout) :
      i < j =>
        /\ (FieldClass(fout[i]) < 4 /\ FieldClass(fout[j]) < 4)
             => FieldClass(fout[i]) <= FieldClass(fout[j])
        /\ FieldClass(fout[i]) = FieldClass(fout[j])
             => /\ Frequency(fout[i]) >= Frequency(fout[j])
                /\ Frequency(fout[i]) = Frequency(fout[j])
                     => Len(fout[i]) <= Len(fout[j])

\* A call that needs the index profile of a table in a database the caller
\* named has returned.
ProfileCall ==
  /\ apc = "done"
  /\ call.database_given
  /\ \/ call.entry = "check_indexes"
     \/ call.entry \in {"report", "core"} /\ call.sql.text # "empty"

\* C23: the index profile is looked for in the live database, within the
\* database the caller named, first; the snapshot of the caller is read only
\* after the live database, and only when the live database gave no indexes.
C23_LiveFirstSnapshotLast ==
  ProfileCall =>
    /\ consulted # << >>
    /\ consulted[1] = "live_hinted"
    /\ \A k \in 1..Len(consulted) :
         consulted[k] = "snapshot" => (k > 1 /\ call.live.kind # "indexes")

\* extract_where_fields has returned.
WhereExtracted == fpc = "done" /\ fcall.fn = "extract_where_fields"

\* The field a condition is about, as the extractors write it: COL, or
\* FN(COL) with the function name in capitals.
CondField(c) ==
  IF c.fn = "none" THEN Chars(c.col)
  ELSE Upper(Chars(c.fn)) \o << "(" >> \o Chars(c.col) \o << ")" >>

\* The conditions of a part that compare a field: a keyword is none.
FieldConditions(part) ==
  LET names_field(c) == ~(c.fn = "none" /\ Upper(Chars(c.col)) \in ConditionKeywords)
  IN SelectSeq(part, names_field)

\* The fields of the conditions of the parts, in their order of appearance in
\* the text.
RECURSIVE FieldsAsWritten(_)
FieldsAsWritten(parts) ==
  IF parts = << >> THEN << >>
  ELSE LET conditions == FieldConditions(Head(parts))
       IN [i \in 1..Len(conditions) |-> CondField(conditions[i])]
            \o FieldsAsWritten(Tail(parts))

NoFieldTwice(fields) == \A i, j \in 1..Len(fields) : i # j => fields[i] # fields[j]

\* The position of the first occurrence of x in fields.
FirstAt(fields, x) == CHOOSE i \in 1..Len(fields) : fields[i] = x /\ \A j \in 1..(i - 1) : fields[j] # x

\* What the claim describes, given the fields before the first OR and the
\* fields of the OR branches: the first list without repetition, cut to 5,
\* filled up to 5 with the new fields of the second list, f first and the
\* others in their order.
CappedWithOrFields(returned, and_list, or_list) ==
  LET and_set == Range(and_list)
      new_or  == Range(or_list) \ and_set
      n_and   == Min(5, Cardinality(and_set))
      rest    == SubSeq(returned, n_and + 1, Len(returned))
  IN /\ Len(returned) <= 5
     /\ NoFieldTwice(returned)
     /\ Len(returned) = Min(5, Cardinality(and_set) + Cardinality(new_or))
     /\ \A i \in 1..n_and : returned[i] \in and_set /\ FirstAt(and_list, returned[i]) >= i
     /\ \A i, j \in 1..n_and : i < j => FirstAt(and_list, returned[i]) < FirstAt(and_list, returned[j])
     /\ (n_and > 0) => returned[1] = and_list[1]
     /\ \A i \in 1..Len(rest) : rest[i] \in new_or
     /\ (<< "f" >> \in new_or /\ Len(rest) > 0) => rest[1] = << "f" >>
     /\ \A i, j \in 1..Len(rest) :
          (i < j /\ rest[i] # << "f" >>)
            => FirstAt(or_list, rest[i]) < FirstAt(or_list, rest[j])
     /\ \A x \in new_or \ Range(rest) :
          \A i \in 1..Len(rest) :
            /\ x # << "f" >>
            /\ rest[i] # << "f" >> => FirstAt(or_list, rest[i]) < FirstAt(or_list, x)

\* C24: the fields of the conditions before the first OR are returned in
\* their order of appearance in the text, without repetition, cut to 5, and
\* filled up to 5 with the OR-branch fields, f first; never more than 5
\* fields, never a field twice.
C24_AsWritten ==
  WhereExtracted =>
    CappedWithOrFields(fout, FieldsAsWritten(<< fcall.where[1] >>),
                       FieldsAsWritten(Tail(fcall.where)))

\* How many of the queries issued are q on database db.
IssuedCount(q, db) ==
  Cardinality({i \in 1..Len(issued) : issued[i] = [q |-> q, db |-> db]})

\* The candidates of the listing that answer "yes", in listing order.
Holders ==
  LET holds(db) == server.answers[db] = "yes"
  IN SelectSeq(candidate_dbs(server.listing), holds)

\* At most one listing, at most one existence check per candidate and none
\* for a database that is not a candidate; once returned, the value is the
\* first candidate in listing order that holds the table, or empty.
OneQueryEach ==
  /\ IssuedCount("show_databases", "") <= 1
  /\ \A i \in 1..Len(issued) :
       issued[i].q = "table_exists"
         => /\ issued[i].db \in Range(candidate_dbs(server.listing))
            /\ IssuedCount("table_exists", issued[i].db) = 1
  /\ lpc = "returned" =>
       lret = (IF server.table_given /\ server.listable /\ Holders # << >>
                 THEN Holders[1] ELSE "")

\* C25: a failed query is not retried: one call issues at most one database
\* listing and at most one existence check per candidate database, and it
\* ends, returning the first candidate in listing order that holds the table
\* or the empty result.
C25_NoRetryAndTerminates ==
  /\ []OneQueryEach
  /\ <>(lpc = "returned")

\* The call has returned the third candidate after the check of the first
\* one failed and the second one did not hold the table: three checks and one
\* listing were issued.
C25_Witness ==
  /\ lpc = "returned"
  /\ Len(candidates) = 3
  /\ server.answers[candidates[1]] = "error"
  /\ server.answers[candidates[2]] = "no"
  /\ lret = candidates[3]
  /\ Len(issued) = 4

\* C26: no index statement of the returned advice names a column twice.
C26_NoColumnTwice ==
  (apc = "done" /\ call.entry \in {"report", "core"} /\ advice.kind = "text") =>
    \A k \in 1..Len(advice.statements) :
      \A i, j \in 1..Len(advice.statements[k].columns) :
        advice.statements[k].columns[i] = advice.statements[k].columns[j] => i = j


\* The fields the generator found in the WHERE and JOIN conditions that the
\* index profile it read does not hold.
GeneratorUncovered ==
  Range(analysis.where_fields \o analysis.join_fields) \ analysis.existing_indexes

\* The columns of the index statements of the returned advice.
AdvisedColumns ==
  UNION {Range(advice.statements[k].columns) : k \in 1..Len(advice.statements)}

\* C27: when the generator's coverage verdict is partially_covered or
\* not_covered and no field of the statement is function-wrapped, the advice
\* holds at least one index statement, and every uncovered field, an
\* uncovered JOIN field included, is a column of one (all of them when there
\* are at most 5, else 5 of them).
C27_EveryUncoveredFieldAdvised ==
  ( /\ apc = "done"
    /\ analysis.ran
    /\ analysis.index_coverage \in {"partially_covered", "not_covered"}
    /\ \A i \in 1..Len(call.sql.conds) : call.sql.conds[i].fn = "none" )
  =>
    /\ Len(advice.statements) >= 1
    /\ AdvisedColumns \subseteq GeneratorUncovered
    /\ IF Cardinality(GeneratorUncovered) <= 5
         THEN GeneratorUncovered \subseteq AdvisedColumns
         ELSE Cardinality(AdvisedColumns) = 5

\* The text is an INSERT, UPDATE, DELETE or DDL statement: it starts with one
\* of these keywords.
DataModifying(text) ==
  \E k \in 1..Len(dangerous_keywords) : StartsWith(Upper(Strip(text)), dangerous_keywords[k])

\* C28: no statement that execute_safe_query ran on a connection, on either
\* helper, with or without a commit after it, is a data-modifying one.
C28_NoModifyingStatementRuns ==
  lq.via = "execute_safe_query" => ~DataModifying(QueryText(lq.statement))

\* C29: the list returned for a condition holds every column the condition
\* compares bare (a name that is no keyword), unless the column is also the
\* argument of a function call in it; a function-wrapped column whose text
\* contains the bare column's name makes no difference.
C29_EveryPlainColumnReturned ==
  (fpc = "done" /\ fcall.fn = "extract_fields_from_condition") =>
    LET part == fcall.where[1]
    IN \A i \in 1..Len(part) :
         ( /\ part[i].fn = "none"
           /\ Upper(Chars(part[i].col)) \notin ConditionKeywords
           /\ ~\E j \in 1..Len(part) : part[j].fn # "none" /\ part[j].col = part[i].col )
         => \E k \in 1..Len(fout) : fout[k] = Chars(part[i].col)

\* The call that returned last was turned down by the dangerous-keyword test.
RejectedByKeywordGuard ==
  /\ pc = "idle"
  /\ result = "rejected"
  /\ IsDangerous(QueryText(query))

\* C30: the dangerous-keyword guard of DatabaseHelper turns down
\* data-modifying statements only, so the index lookup of a table is never
\* answered with the uncertain state because of the guard.
C30_GuardRejectsOnlyModifying ==
  RejectedByKeywordGuard =>
    /\ DataModifying(QueryText(query))
    /\ op # "get_table_indexes_from_db"

====
